---- MODULE Spec2Model ----
(***************************************************************************)
(* Model of steam-audio-isolator's routing controller                      *)
(* (steam_pipewire/pipewire/controller.py) and of the handlers of          *)
(* steam_pipewire/ui/main_window.py that drive it, running against a       *)
(* PipeWire graph of nodes, ports and links; of the source detector        *)
(* (steam_pipewire/pipewire/source_detector.py) with its classifier and    *)
(* its cache; and of the profile files of steam_pipewire/utils/config.py.  *)
(*                                                                         *)
(* Every public operation is synchronous and runs on the UI thread, so one *)
(* action models one whole handler.  The manager calls a handler makes     *)
(* (pw-dump, pw-cli list-objects / destroy / create-link) can each fail or *)
(* time out; which call of a run goes wrong is an input of the action.     *)
(*                                                                         *)
(* The MainWindow section models the Qt side: the UI thread's call stack,  *)
(* the nested event loops of its message boxes, the detector threads with  *)
(* their queued signals and the detection watchdog.                        *)
(***************************************************************************)
EXTENDS Integers, Sequences, FiniteSets, TLC

VARIABLES
    nodes,          \* the live graph: node id -> kind of the node, or "absent"
    links,          \* the live graph: set of link objects
    steam_node_id,  \* PipeWireController.steam_node_id (0 models None)
    pc,             \* "idle", or "returned" while a handler's result is shown
    faults,         \* manager calls that have failed or timed out so far
    last,           \* the handler that just returned: arguments, result, calls
    detector,       \* a SourceDetector kept between calls: its _cache and _cache_time
    now,            \* time.time()
    profiles_dir,   \* ConfigManager.profiles_dir: file name -> file contents
    ui              \* MainWindow: the UI thread's call stack, its detector threads,
                    \* the signals they queued and the detection watchdog

vars == <<nodes, links, steam_node_id, pc, faults, last, detector, now, profiles_dir, ui>>
\* What the routing controller and its handlers never touch.
detvars == <<detector, now>>
cfgvars == <<profiles_dir>>
uivars == <<ui>>
\* SourceDetector.__init__, and ConfigManager._ensure_dirs on a first start.
\* (cached says that _cache is not None)
NewDetector == [cached |-> FALSE, cache |-> <<>>, cache_time |-> 0]
EmptyDir == [f \in {} |-> <<>>]
\* detect_sources arms its watchdog with 5000 ms.
WatchdogTimeout == 5
\* MainWindow.__init__: no handler on the stack, and the detect_sources() it
\* ends with has started the first detector thread and armed the watchdog.
NewWindow ==
    [gui |-> <<>>, threads |-> <<"running">>, detector_thread |-> 1, posted |-> <<>>,
     watchdog |-> [armed |-> TRUE, left |-> WatchdogTimeout],
     outcome |-> <<{}>>]

(***************************************************************************)
(* Bounds of the model.                                                    *)
(***************************************************************************)
MaxDup    == 2      \* link objects the graph can hold between one pair of ports
MaxSel    == 2      \* source ids passed to one create_audio_routing call
MaxFaults == 1      \* manager calls that fail or time out in one run

(***************************************************************************)
(* The graph universe.  A node id holds one of the kinds listed for it;    *)
(* id 1 is reused by another application after Steam has gone.             *)
(***************************************************************************)
NodeIds == 1..7

KindsAt(n) ==
    CASE n = 1 -> {"Steam", "Recorder"}
      [] n = 2 -> {"Steam"}
      [] n = 3 -> {"Game"}
      [] n = 4 -> {"Voice"}
      [] n = 5 -> {"Analog"}
      [] n = 6 -> {"Hdmi"}
      [] n = 7 -> {"Headset"}

\* Property strings are sequences of fragments: `x in s` of the Python code
\* is membership of the fragment x in the sequence s.
Props(kind) ==
    CASE kind = "Steam" ->
           [app |-> "Steam", name |-> <<"Steam">>, dev |-> <<>>,
            desc |-> <<"Steam", "Game", "Recording">>,
            mclass |-> <<"Stream/Input/Audio">>, nout |-> 0, nin |-> 2]
      [] kind = "Recorder" ->
           [app |-> "OBS", name |-> <<"obs">>, dev |-> <<>>,
            desc |-> <<"OBS", "Capture">>,
            mclass |-> <<"Stream/Input/Audio">>, nout |-> 0, nin |-> 2]
      [] kind = "Game" ->
           [app |-> "Duckov.exe", name |-> <<"Duckov", ".exe">>, dev |-> <<>>,
            desc |-> <<"Duckov", "Game", "Audio">>,
            mclass |-> <<"Stream/Output/Audio">>, nout |-> 2, nin |-> 0]
      [] kind = "Voice" ->
           [app |-> "WEBRTC VoiceEngine", name |-> <<"WEBRTC", "VoiceEngine">>,
            dev |-> <<>>, desc |-> <<"Discord", "Voice">>,
            mclass |-> <<"Stream/Output/Audio">>, nout |-> 1, nin |-> 0]
      [] kind = "Headset" ->
           [app |-> "", name |-> <<"bluez", "_input.AA_BB">>,
            dev |-> <<"bluez", "_card.AA_BB">>, desc |-> <<"WH-1000", "Headset">>,
            mclass |-> <<"Audio/Source">>, nout |-> 1, nin |-> 0]
      [] kind = "Analog" ->
           [app |-> "", name |-> <<"alsa_output", ".pci-0000_00_1f.3.", "analog-stereo">>,
            dev |-> <<"alsa_card", ".pci-0000_00_1f.3">>,
            desc |-> <<"Built-in", "Audio">>,
            mclass |-> <<"Audio/Sink">>, nout |-> 2, nin |-> 2]
      [] kind = "Hdmi" ->
           [app |-> "", name |-> <<"alsa_output", ".pci-0000_03_00.1.", "hdmi", "-stereo">>,
            dev |-> <<"alsa_card", ".pci-0000_03_00.1">>,
            desc |-> <<"Navi", "HDMI">>,
            mclass |-> <<"Audio/Sink">>, nout |-> 2, nin |-> 2]
      [] kind = "Usb" ->
           [app |-> "", name |-> <<"alsa_output", ".usb-Generic_DAC-00.", "pro-output-0">>,
            dev |-> <<"alsa_card", ".usb-Generic_DAC-00">>,
            desc |-> <<"USB", "DAC", "Pro">>,
            mclass |-> <<"Audio/Sink">>, nout |-> 2, nin |-> 2]
      [] kind = "Speakers" ->
           [app |-> "", name |-> <<"alsa_output", ".usb-Creative_", "Stereo", "_Speakers-00">>,
            dev |-> <<"alsa_card", ".usb-Creative_", "Stereo", "_Speakers-00">>,
            desc |-> <<"Creative", "Stereo", "Speakers">>,
            mclass |-> <<"Audio/Sink">>, nout |-> 2, nin |-> 2]
      [] kind = "EchoCancel" ->
           [app |-> "", name |-> <<"echo-cancel", "-sink">>, dev |-> <<>>,
            desc |-> <<"Echo-Cancel", "Sink">>,
            mclass |-> <<"Audio/Sink">>, nout |-> 2, nin |-> 2]

Present(ns, n) == n \in NodeIds /\ ns[n] # "absent"
\* The properties of every kind of node, and those of the node with id n.
Kinds ==
    {"Steam", "Recorder", "Game", "Voice", "Headset", "Analog", "Hdmi", "Usb",
     "Speakers", "EchoCancel"}
PropsTable == [kind \in Kinds |-> Props(kind)]
PropsOf(ns, n) == PropsTable[ns[n]]

\* str.lower() on one fragment
LowerTok(t) ==
    CASE t = "Headset" -> "headset"
      [] t = "Steam" -> "steam"
      [] t = "Duckov" -> "duckov"
      [] t = "WEBRTC" -> "webrtc"
      [] t = "VoiceEngine" -> "voiceengine"
      [] t = "WH-1000" -> "wh-1000"
      [] t = "Built-in" -> "built-in"
      [] t = "Audio" -> "audio"
      [] t = "Navi" -> "navi"
      [] t = "HDMI" -> "hdmi"
      [] t = "Game" -> "game"
      [] t = "Recording" -> "recording"
      [] t = "OBS" -> "obs"
      [] t = "Capture" -> "capture"
      [] t = "Discord" -> "discord"
      [] t = "Voice" -> "voice"
      [] t = "_input.AA_BB" -> "_input.aa_bb"
      [] t = "_card.AA_BB" -> "_card.aa_bb"
      [] t = ".usb-Generic_DAC-00." -> ".usb-generic_dac-00."
      [] t = ".usb-Generic_DAC-00" -> ".usb-generic_dac-00"
      [] t = ".usb-Creative_" -> ".usb-creative_"
      [] t = "Stereo" -> "stereo"
      [] t = "_Speakers-00" -> "_speakers-00"
      [] t = "USB" -> "usb"
      [] t = "DAC" -> "dac"
      [] t = "Pro" -> "pro"
      [] t = "Creative" -> "creative"
      [] t = "Speakers" -> "speakers"
      [] t = "Echo-Cancel" -> "echo-cancel"
      [] t = "Sink" -> "sink"
      [] t = "Chromium" -> "chromium"
      [] t = "Firefox" -> "firefox"
      [] t = "Vivaldi" -> "vivaldi"
      [] t = "Native" -> "native"
      [] t = "PipeWire" -> "pipewire"
      [] t = "Wine" -> "wine"
      [] t = "Music" -> "music"
      [] OTHER -> t
Lower(s) == [i \in DOMAIN s |-> LowerTok(s[i])]

\* `x in s`
Contains(s, x) == \E i \in DOMAIN s : s[i] = x
\* any(x in s for x in xs)
ContainsAny(s, xs) == \E x \in xs : Contains(s, x)

Min(T) == CHOOSE x \in T : \A y \in T : x <= y

\* The elements of a set of integers in ascending order: the order in which
\* pw-dump and pw-cli list objects.
RECURSIVE SortedSeq(_)
SortedFrom(T, m) == <<m>> \o SortedSeq(T \ {m})
SortedSeq(T) == IF T = {} THEN <<>> ELSE SortedFrom(T, Min(T))

\* Port ids of a node as pw-dump lists them.
OutPort(n, i) == n * 10 + i
InPort(n, i) == n * 10 + 4 + i


(***************************************************************************)
(* The graph manager as the controller sees it.                            *)
(***************************************************************************)
\* Objects as pw-dump and pw-cli list them: in the order of their ids.
ObjectsAt(objs, ids) == [i \in DOMAIN ids |-> CHOOSE o \in objs : o.id = ids[i]]
InIdOrder(objs) == ObjectsAt(objs, SortedSeq({o.id : o \in objs}))
IdsOf(objs) == [i \in DOMAIN objs |-> objs[i].id]

\* The Port objects of a pw-dump, each with its id, its node.id and its
\* port.direction, in the order of the dump: by id, which is node by node,
\* the out ports of a node before its in ports.
PortsOfKind(n, kind) ==
    [i \in 1..Props(kind).nout |-> [id |-> OutPort(n, i - 1), node |-> n, dir |-> "out"]]
    \o [i \in 1..Props(kind).nin |-> [id |-> InPort(n, i - 1), node |-> n, dir |-> "in"]]
PortsTable == [n \in NodeIds |-> [kind \in Kinds |-> PortsOfKind(n, kind)]]
PortObjects(ns, n) == IF ~Present(ns, n) THEN <<>> ELSE PortsTable[n][ns[n]]
RECURSIVE PortDumpFrom(_, _)
PortDumpFrom(ns, n) ==
    IF n \notin NodeIds THEN <<>> ELSE PortObjects(ns, n) \o PortDumpFrom(ns, n + 1)
PortDump(ns) == PortDumpFrom(ns, 1)

\* A port filter that looks at the direction only.
Ports_AnyNode(ns, n, dir) ==
    IdsOf(SelectSeq(PortDump(ns), LAMBDA p : p.dir = dir))

\* _get_available_ports: the ids of the ports of the dump whose node.id is n
\* and whose direction is dir, in the order of the dump.
Ports(ns, n, dir) ==
    IdsOf(SelectSeq(PortDump(ns), LAMBDA p : p.node = n /\ p.dir = dir))

\* The id the manager gives a new link object between ports op and ip: the
\* manager's ids are its own business, the model derives them from the ports
\* and from how many links the pair already has; 0 when it can hold no more.
LinkIdOf(op, ip, copy) == (op * 100 + ip) * 10 + copy
FreeId(ls, op, ip) ==
    LET free == {c \in 1..MaxDup : \A l \in ls : l.id # LinkIdOf(op, ip, c)}
    IN  IF free = {} THEN 0 ELSE LinkIdOf(op, ip, Min(free))

\* pw-cli list-objects Link: the links in id order.
LinkListing(ls) == InIdOrder(ls)

\* Outcome of one manager call.  F holds the calls that fail (non-zero exit,
\* or a timeout that left the graph alone), L the mutating calls that time
\* out although the manager carries them out.  <<"gone", id, 0>> in L says
\* that link id left the graph after it was listed and before its destroy,
\* which then exits non-zero.
CallRes(p, F, L) ==
    IF p \in F THEN "fail"
    ELSE IF p \in L THEN "timeout"
    ELSE IF p[1] = "destroy" /\ <<"gone", p[2], 0>> \in L THEN "gone"
    ELSE "ok"
TookEffect(p, F) == p \notin F

SeqToSet(s) == {s[i] : i \in DOMAIN s}

(***************************************************************************)
(* PipeWireController                                                      *)
(***************************************************************************)
\* _update_steam_node: the first node of the dump whose application.name is
\* 'Steam'; the cached id is left alone when the dump fails or no node matches.
SteamNodes(ns) == {n \in NodeIds : Present(ns, n) /\ PropsOf(ns, n).app = "Steam"}
UpdateSteamNode(cached, ns, dumpOk) ==
    IF dumpOk /\ SteamNodes(ns) # {} THEN Min(SteamNodes(ns)) ELSE cached

\* create_audio_routing, sink detection: the first node whose node.name holds
\* 'alsa_output' and 'analog-stereo'; 0 (None) when there is none.
IsAnalogOutput(p) == Contains(p.name, "alsa_output") /\ Contains(p.name, "analog-stereo")
AnalogOutputKinds == {kind \in Kinds : IsAnalogOutput(Props(kind))}
AudioSinkId(ns, dumpOk) ==
    LET cands == {n \in NodeIds : Present(ns, n) /\ ns[n] \in AnalogOutputKinds}
    IN  IF dumpOk /\ cands # {} THEN Min(cands) ELSE 0

\* A removal set that clears the sink's links and leaves the routes of the
\* selected sources alone.
MarkedForRemoval_SinkOnly(l, sink, S, target) ==
    sink # 0 /\ l.on = sink /\ l.inn = target

\* The removal set of the earlier revisions, which also took a selected
\* source off the speakers.
MarkedForRemoval_GameToSink(l, sink, S, target) ==
    \/ sink # 0 /\ l.on = sink /\ l.inn = target
    \/ l.on \in SeqToSet(S) /\ l.inn = target
    \/ sink # 0 /\ l.on \in SeqToSet(S) /\ l.inn = sink

\* create_audio_routing, removal set: one link of the listing.
MarkedForRemoval(l, sink, S, target) ==
    \/ sink # 0 /\ l.on = sink /\ l.inn = target
    \/ l.on \in SeqToSet(S) /\ l.inn = target

\* routes_to_remove, in listing order (empty when the listing fails).
RoutesToRemove(ls, sink, S, target, listOk) ==
    IF listOk
    THEN SelectSeq(LinkListing(ls), LAMBDA l : MarkedForRemoval(l, sink, S, target))
    ELSE <<>>

DestroyCall(l, F, L) ==
    [k |-> "destroy", pt |-> <<"destroy", l.id, 0>>, on |-> l.on, op |-> l.op,
     inn |-> l.inn, ip |-> l.ip, res |-> CallRes(<<"destroy", l.id, 0>>, F, L)]

\* The destroy loop: every link of the removal set gets one pw-cli destroy,
\* whose outcome is only logged.
DestroyLoop(ls, rem, F, L) ==
    [links |-> {l \in ls : ~(\E i \in DOMAIN rem :
                                 rem[i].id = l.id /\ TookEffect(<<"destroy", l.id, 0>>, F))},
     calls |-> [i \in DOMAIN rem |-> DestroyCall(rem[i], F, L)]]

\* Source validation.
IsBluetooth(p) ==
    \/ ContainsAny(Lower(p.name), {"bluez", "bluetooth", "bt_", "hci"})
    \/ ContainsAny(Lower(p.dev), {"bluez", "bluetooth", "bt_", "hci"})
    \/ ContainsAny(Lower(p.desc), {"bluetooth", "headset", "earbuds", "airpods"})
IsAudioSink(p) ==
    \/ Contains(Lower(p.name), "alsa_output")
    \/ Contains(p.mclass, "Audio/Sink")
\* A validation that only asks whether the node is still there.
IsValidSource_PresentOnly(ns, s) == Present(ns, s)

\* The kinds of node that pass the two checks on their properties.
ValidKinds == {kind \in Kinds : ~IsBluetooth(Props(kind)) /\ ~IsAudioSink(Props(kind))}
IsValidSource(ns, s) == Present(ns, s) /\ ns[s] \in ValidKinds
\* valid_source_ids: one pw-dump per candidate; a failed dump drops the candidate.
ValidSourceIds(ns, S, F) ==
    SelectSeq(S, LAMBDA s : <<"validate", s, 0>> \notin F /\ IsValidSource(ns, s))

CreateCall(src, i, sp, target, tp, res) ==
    [k |-> "create", pt |-> <<"create", src, i>>, on |-> src, op |-> sp,
     inn |-> target, ip |-> tp, res |-> res]

\* The channel loop of one source: one create-link per paired port;
\* source_connected becomes true when a create-link returns 0.
\* One create-link: the graph after it, and the call with the result the
\* controller got.
LinkCreated(ls, src, sp, target, tp) ==
    ls \cup {[id |-> FreeId(ls, sp, tp), on |-> src, op |-> sp, inn |-> target, ip |-> tp]}
AfterCreate(ls, src, i, sp, target, tp, F) ==
    IF TookEffect(<<"create", src, i>>, F) THEN LinkCreated(ls, src, sp, target, tp) ELSE ls
ChannelDone(call, rest) ==
    [links |-> rest.links, calls |-> <<call>> \o rest.calls,
     connected |-> (call.res = "ok") \/ rest.connected]
RECURSIVE ChannelLoop(_, _, _, _, _, _, _, _, _)
ChannelLoop(ls, src, target, sps, tps, i, num, F, L) ==
    IF i > num THEN [links |-> ls, calls |-> <<>>, connected |-> FALSE]
    ELSE ChannelDone(
             CreateCall(src, i, sps[i], target, tps[i], CallRes(<<"create", src, i>>, F, L)),
             ChannelLoop(AfterCreate(ls, src, i, sps[i], target, tps[i], F),
                         src, target, sps, tps, i + 1, num, F, L))

MinOf(a, b) == IF a <= b THEN a ELSE b

\* Whether a source whose channel loop ended counts as connected.
SourceConnected(chan, num) == chan.connected

\* The source loop: ports of the source and of the target, then the channels.
\* The ports a source's dump gives: none when the dump fails.
PortsRead(read, s, ns, n, dir, F) ==
    IF <<read, s, 0>> \in F THEN <<>> ELSE Ports(ns, n, dir)
\* The channels of one source: skipped when either port list is empty.
SourceChannels(ls, s, target, sps, tps, F, L) ==
    IF sps = <<>> \/ tps = <<>>
    THEN [links |-> ls, calls |-> <<>>, connected |-> FALSE]
    ELSE ChannelLoop(ls, s, target, sps, tps, 1, MinOf(Len(sps), Len(tps)), F, L)
\* A source loop that passes over a source without ports and says nothing.
SourceGood_SkipIsFine(sps, tps, chan) ==
    (sps = <<>> \/ tps = <<>>) \/ SourceConnected(chan, MinOf(Len(sps), Len(tps)))
SourceGood(sps, tps, chan) ==
    ~(sps = <<>> \/ tps = <<>>) /\ SourceConnected(chan, MinOf(Len(sps), Len(tps)))
\* A source loop that gives up at the first source that could not be connected.
SourceDone_StopOnFailure(s, chan, good, rest) ==
    IF good
    THEN [links |-> rest.links, calls |-> chan.calls \o rest.calls,
          connected |-> <<s>> \o rest.connected, failed |-> rest.failed]
    ELSE [links |-> chan.links, calls |-> chan.calls, connected |-> <<>>,
          failed |-> <<s>>]
SourceDone(s, chan, good, rest) ==
    [links |-> rest.links,
     calls |-> chan.calls \o rest.calls,
     connected |-> (IF good THEN <<s>> ELSE <<>>) \o rest.connected,
     failed |-> (IF good THEN <<>> ELSE <<s>>) \o rest.failed]

\* The source loop: ports of the source and of the target, then the channels.
RECURSIVE SourceLoop(_, _, _, _, _, _)
SourceNext(ns, srcs, target, sps, tps, chan, F, L) ==
    SourceDone(Head(srcs), chan, SourceGood(sps, tps, chan),
               SourceLoop(ns, chan.links, Tail(srcs), target, F, L))
SourceWithPorts(ns, ls, srcs, target, sps, tps, F, L) ==
    SourceNext(ns, srcs, target, sps, tps,
               SourceChannels(ls, Head(srcs), target, sps, tps, F, L), F, L)
SourceLoop(ns, ls, srcs, target, F, L) ==
    IF srcs = <<>>
    THEN [links |-> ls, calls |-> <<>>, connected |-> <<>>, failed |-> <<>>]
    ELSE SourceWithPorts(ns, ls, srcs, target,
                         PortsRead("ports", Head(srcs), ns, Head(srcs), "out", F),
                         PortsRead("tports", Head(srcs), ns, target, "in", F), F, L)

\* The loops the other way round: the new links first, the removals after.
RoutingSteps_CreateFirst(ns, ls, rem, valid, target, F, L) ==
    LET c == SourceLoop(ns, ls, valid, target, F, L)
        d == DestroyLoop(c.links, rem, F, L)
    IN  [links |-> d.links, calls |-> c.calls \o d.calls,
         connected |-> c.connected, failed |-> c.failed]

\* The two mutating loops of create_audio_routing in the order the code runs
\* them: every destroy of the removal set, then the creates of the valid sources.
StepsDone(d, c) ==
    [links |-> c.links, calls |-> d.calls \o c.calls,
     connected |-> c.connected, failed |-> c.failed]
CreatesAfter(ns, d, valid, target, F, L) ==
    StepsDone(d, SourceLoop(ns, d.links, valid, target, F, L))
RoutingSteps(ns, ls, rem, valid, target, F, L) ==
    CreatesAfter(ns, DestroyLoop(ls, rem, F, L), valid, target, F, L)

\* The dumps and listings of a create_audio_routing run.
RoutingReads(S, valid) ==
    {<<"sinkdump", 0, 0>>, <<"list", 0, 0>>}
    \cup {<<"validate", S[i], 0>> : i \in DOMAIN S}
    \cup {<<k, valid[i], 0>> : k \in {"ports", "tports"}, i \in DOMAIN valid}
\* What create_audio_routing returns once its loops have run.
RoutingResult(S, rem, valid, st) ==
    [links |-> st.links,
     ok |-> valid # <<>> /\ st.failed = <<>>,
     kind |-> IF valid = <<>> THEN "NoValidSources"
              ELSE IF st.failed = <<>> THEN "Ok" ELSE "Failed",
     calls |-> st.calls, reads |-> RoutingReads(S, valid), removal |-> rem,
     valid |-> valid, connected |-> st.connected, failed |-> st.failed]
\* create_audio_routing from its removal set and its valid sources on.
RoutingWith(ns, ls, S, target, rem, valid, F, L) ==
    RoutingResult(S, rem, valid, RoutingSteps(ns, ls, rem, valid, target, F, L))

\* create_audio_routing(source_ids, target_node_id).
CreateAudioRouting(ns, ls, S, target, F, L) ==
    IF target = 0
    THEN [links |-> ls, ok |-> FALSE, kind |-> "TargetNotFound", calls |-> <<>>,
          reads |-> {}, removal |-> <<>>, valid |-> <<>>, connected |-> <<>>,
          failed |-> <<>>]
    ELSE RoutingWith(ns, ls, S, target,
                     RoutesToRemove(ls, AudioSinkId(ns, <<"sinkdump", 0, 0>> \notin F),
                                    S, target, <<"list", 0, 0>> \notin F),
                     ValidSourceIds(ns, S, F), F, L)

\* A listing parser that loses the last link block of the output.
GetCurrentRoutes_LastLinkLost(ls, steam, listOk) ==
    IF steam = 0 \/ ~listOk THEN <<>>
    ELSE SelectSeq(SubSeq(LinkListing(ls), 1, Cardinality(ls) - 1),
                   LAMBDA l : l.inn = steam)

\* get_current_routes: the links of the listing whose input node is the
\* cached Steam node, in listing order; [] when the id is unset or the
\* listing fails.
GetCurrentRoutes(ls, steam, listOk) ==
    IF steam = 0 \/ ~listOk THEN <<>>
    ELSE SelectSeq(LinkListing(ls), LAMBDA l : l.inn = steam)

\* remove_routing: true when pw-cli destroy returns 0.
RemoveRouting(l, F, L) == CallRes(<<"destroy", l.id, 0>>, F, L) = "ok"

\* disconnect_all_from_steam, given the routes get_current_routes returned.
DisconnectResult(routes, d, failed) ==
    [links |-> d.links, ok |-> failed = {},
     kind |-> IF failed = {} THEN "Ok" ELSE "Failed",
     calls |-> d.calls, reads |-> {}, removal |-> routes, valid |-> <<>>,
     connected |-> <<>>, failed |-> SortedSeq(failed)]
DisconnectAllFromSteam(ls, routes, F, L) ==
    DisconnectResult(routes, DestroyLoop(ls, routes, F, L),
                     {i \in DOMAIN routes : ~RemoveRouting(routes[i], F, L)})

\* reconnect_sink_to_steam, sink categories.
IsGpuSink(p) ==
    ContainsAny(Lower(p.name), {"navi", "nvidia", "hdmi", "gpu", "displayport", "dp-"})
IsVirtualSink(p) == ContainsAny(Lower(p.name), {"echo-cancel", "dummy", "freewheel"})
IsAnalogSink(p) == Contains(p.name, "Analog") \/ Contains(p.name, "Stereo")
SinkCategory(p) ==
    IF ~Contains(p.mclass, "Audio/Sink") THEN "none"
    ELSE IF IsVirtualSink(p) THEN "virtual"
    ELSE IF IsGpuSink(p) THEN "gpu"
    ELSE IF IsAnalogSink(p) THEN "analog"
    ELSE "other"
CategoryTable == [kind \in Kinds |-> SinkCategory(Props(kind))]
SinksOf(ns, cat) == {n \in NodeIds : Present(ns, n) /\ CategoryTable[ns[n]] = cat}
\* The sink picked: the first analog one, else the first other one, else the
\* first GPU one; 0 (None) when there is none.
SelectSink(ns) ==
    IF SinksOf(ns, "analog") # {} THEN Min(SinksOf(ns, "analog"))
    ELSE IF SinksOf(ns, "other") # {} THEN Min(SinksOf(ns, "other"))
    ELSE IF SinksOf(ns, "gpu") # {} THEN Min(SinksOf(ns, "gpu"))
    ELSE 0

NoResult(ls, kind, reads) ==
    [links |-> ls, ok |-> FALSE, kind |-> kind, calls |-> <<>>, reads |-> reads,
     removal |-> <<>>, valid |-> <<>>, connected |-> <<>>, failed |-> <<>>]

\* reconnect_sink_to_steam: links the picked sink to the cached Steam node.
ReconnectReads(sink) ==
    {<<"sinkdump", 0, 0>>, <<"ports", sink, 0>>, <<"tports", sink, 0>>}
\* What reconnect_sink_to_steam returns once its create-links have run; n is
\* the number of them that returned 0.
ReconnectResult(sink, chan, n) ==
    [links |-> chan.links, ok |-> n > 0,
     kind |-> IF n > 0 THEN "Ok" ELSE "Failed",
     calls |-> chan.calls, reads |-> ReconnectReads(sink), removal |-> <<>>,
     valid |-> <<>>,
     connected |-> IF n > 0 THEN <<sink>> ELSE <<>>,
     failed |-> IF n > 0 THEN <<>> ELSE <<sink>>]
LinksCreated(calls) == Cardinality({i \in DOMAIN calls : calls[i].res = "ok"})
ReconnectDone(sink, chan) == ReconnectResult(sink, chan, LinksCreated(chan.calls))
ReconnectWithPorts(ls, sink, steam, sps, tps, F, L) ==
    IF sps = <<>> \/ tps = <<>> THEN NoResult(ls, "NoPorts", ReconnectReads(sink))
    ELSE ReconnectDone(sink, ChannelLoop(ls, sink, steam, sps, tps, 1,
                                         MinOf(Len(sps), Len(tps)), F, L))
ReconnectWithSink(ns, ls, sink, steam, F, L) ==
    IF sink = 0 THEN NoResult(ls, "NoSink", {<<"sinkdump", 0, 0>>})
    ELSE IF steam = 0 THEN NoResult(ls, "TargetNotFound", {<<"sinkdump", 0, 0>>})
    ELSE ReconnectWithPorts(ls, sink, steam,
                            PortsRead("ports", sink, ns, sink, "out", F),
                            PortsRead("tports", sink, ns, steam, "in", F), F, L)
ReconnectSinkToSteam(ns, ls, steam, F, L) ==
    IF <<"sinkdump", 0, 0>> \in F THEN NoResult(ls, "QueryFailed", {<<"sinkdump", 0, 0>>})
    ELSE ReconnectWithSink(ns, ls, SelectSink(ns), steam, F, L)

(***************************************************************************)
(* Exceptions of the manager calls.                                        *)
(***************************************************************************)
\* The ways a manager call goes wrong: it runs past its timeout, its
\* executable is missing, it exits non-zero, its output cannot be parsed.
FailureKinds == {"timeout", "missing", "nonzero", "garbage"}
\* What the call named `name` raises in the function that makes it: nothing
\* for an exit code, and nothing for output the function does not parse as
\* JSON (the listing is read line by line, the output of destroy and
\* create-link is only logged).
ExceptionAt(name, kind) ==
    CASE kind = "timeout" -> "TimeoutExpired"
      [] kind = "missing" -> "FileNotFoundError"
      [] kind = "garbage" /\ name \in {"steamdump", "sinkdump", "validate", "ports", "tports"}
                          -> "JSONDecodeError"
      [] OTHER -> "none"

\* A helper whose only except clause is the one for a missing executable.
Excepts_HelperMissingOnly(fn) ==
    IF fn = "_run_pw_cli_safe" THEN {"FileNotFoundError"} ELSE {"Exception"}

\* The except clauses of the try statement of a function ("Exception" takes
\* every class); .sink, .links and .validate are the inner try statements of
\* create_audio_routing.
Excepts(fn) ==
    CASE fn = "_get_available_ports" -> {"Exception"}
      [] fn = "_run_pw_cli_safe" -> {"TimeoutExpired", "FileNotFoundError", "Exception"}
      [] fn = "_update_steam_node" -> {"TimeoutExpired", "Exception"}
      [] fn = "get_current_routes" -> {"Exception"}
      [] fn = "create_audio_routing.sink" -> {"Exception"}
      [] fn = "create_audio_routing.links" -> {"Exception"}
      [] fn = "create_audio_routing.validate" -> {"Exception"}
      [] fn = "create_audio_routing" -> {"Exception"}
      [] fn = "remove_routing" -> {"Exception"}
      [] fn = "reconnect_sink_to_steam" -> {"TimeoutExpired", "Exception"}
      [] OTHER -> {}

\* The try statements around the call `name` when handler op makes it, the
\* innermost first.  disconnect_all_from_steam has no try statement of its own.
TryBlocks(op, name) ==
    CASE op = "apply" /\ name = "sinkdump" ->
             <<"create_audio_routing.sink", "create_audio_routing">>
      [] op = "apply" /\ name = "list" ->
             <<"create_audio_routing.links", "create_audio_routing">>
      [] op = "apply" /\ name = "validate" ->
             <<"create_audio_routing.validate", "create_audio_routing">>
      [] op = "apply" /\ name \in {"ports", "tports"} ->
             <<"_get_available_ports", "create_audio_routing">>
      [] op = "apply" /\ name \in {"destroy", "create"} ->
             <<"_run_pw_cli_safe", "create_audio_routing">>
      [] op = "disconnect" /\ name = "steamdump" -> <<"_update_steam_node">>
      [] op = "disconnect" /\ name = "list" -> <<"get_current_routes">>
      [] op = "disconnect" /\ name = "destroy" -> <<"remove_routing">>
      [] op = "reconnect" /\ name = "sinkdump" -> <<"reconnect_sink_to_steam">>
      [] op = "reconnect" /\ name \in {"ports", "tports"} ->
             <<"_get_available_ports", "reconnect_sink_to_steam">>
      [] op = "reconnect" /\ name = "create" ->
             <<"_run_pw_cli_safe", "reconnect_sink_to_steam">>
      [] OTHER -> <<>>

\* Where an exception raised by the call `name` stops: the first enclosing
\* try statement with a clause for it, "uncaught" when there is none.
CaughtBy(op, name, exc) ==
    LET tb == TryBlocks(op, name)
        at == {i \in DOMAIN tb : exc \in Excepts(tb[i]) \/ "Exception" \in Excepts(tb[i])}
    IN  IF exc = "none" THEN "none"
        ELSE IF at = {} THEN "uncaught"
        ELSE tb[Min(at)]

(***************************************************************************)
(* SourceDetector                                                          *)
(***************************************************************************)
\* The strings the detector looks into are sequences of tokens, cut so that
\* every marker the code looks for in them is a run of whole tokens: `x in s`
\* is "x is a run of s", s.endswith(x) is "x is the last run of s".
Within(x, s) == \E i \in 1..(Len(s) - Len(x) + 1) : SubSeq(s, i, i + Len(x) - 1) = x
WithinAny(xs, s) == \E x \in xs : Within(x, s)
EndsWith(s, x) == Len(x) <= Len(s) /\ SubSeq(s, Len(s) - Len(x) + 1, Len(s)) = x
EndsWithAny(s, xs) == \E x \in xs : EndsWith(s, x)

\* props.get(key, ''): a property mapping is a function from some of the keys
\* app (application.name), bin (application.process.binary), name (node.name),
\* role (media.role) and mclass (media.class) to strings.
Get(props, key) == IF key \in DOMAIN props THEN props[key] ELSE <<>>

\* The markers of _determine_source_type, rule by rule.
WineMarkers == {<<"wine">>, <<"proton">>, <<".exe">>}
HelperMarkers == {<<"steam", "webhelper">>, <<"game", "overlayui">>}
RuntimeMarkers ==
    {<<"pressure-vessel">>, <<"steam-runtime">>, <<"reaper">>, <<"fossilize">>}
    \cup HelperMarkers
GameNameHints == {<<"game">>, <<"proton">>, <<"wine">>}
NativeSuffixes == {<<".x86_64">>, <<".x86">>, <<".bin">>, <<".sh">>}
KnownApplications ==
    {<<"firefox">>, <<"chrome">>, <<"code">>, <<"electron">>, <<"discord">>,
     <<"slack">>, <<"spotify">>, <<"vlc">>, <<"mpv">>}
GamePaths ==
    {<<"/steam/">>, <<"/steamapps/">>, <<"/games/">>, <<"/.steam/">>,
     <<"/compatdata/">>, <<"/shadercache/">>}
GameRoles == {<<"game">>, <<"production">>}
BrowserNames ==
    {<<"firefox">>, <<"chromium">>, <<"chrome">>, <<"opera">>, <<"brave">>, <<"edge">>}
CommunicationNames ==
    {<<"discord">>, <<"slack">>, <<"zoom">>, <<"telegram">>, <<"teams">>, <<"skype">>,
     <<"mumble">>, <<"teamspeak">>}
SystemNames == {<<"alsa">>, <<"jack">>, <<"pulse">>}

\* Rule 5: a native binary of a game-like path whose application is not a
\* known one.
IsNativeGame(app_name, app_binary) ==
    /\ EndsWithAny(app_binary, NativeSuffixes) /\ app_binary # <<>>
    /\ ~WithinAny(KnownApplications, app_name)
    /\ WithinAny(GamePaths, app_binary)

\* A ladder without its last rung: nothing is returned when no rule matches.
SourceType_NoDefault(app_name, app_binary, node_name, media_role) ==
    IF WithinAny(WineMarkers, app_binary) THEN "Game"
    ELSE IF WithinAny(GameNameHints, app_name) THEN "Game"
    ELSE IF WithinAny(BrowserNames, app_name) THEN "Browser"
    ELSE IF WithinAny(CommunicationNames, app_name) THEN "Communication"
    ELSE "None"

\* A ladder that asks for the browser before it looks at the binary.
SourceType_BrowserFirst(app_name, app_binary, node_name, media_role) ==
    IF WithinAny(BrowserNames, app_name) THEN "Browser"
    ELSE IF WithinAny(WineMarkers, app_binary) THEN "Game"
    ELSE IF WithinAny(CommunicationNames, app_name) THEN "Communication"
    ELSE "Application"

\* _determine_source_type, from the lower-cased properties on: the first rule
\* that matches gives the type.  (The code's rule 3 only passes.)
SourceType(app_name, app_binary, node_name, media_role) ==
    IF WithinAny(WineMarkers, app_binary) THEN "Game"
    ELSE IF WithinAny(RuntimeMarkers, app_binary)
    THEN (IF WithinAny(HelperMarkers, app_binary) THEN "System" ELSE "Game")
    ELSE IF WithinAny(GameNameHints, app_name) THEN "Game"
    ELSE IF IsNativeGame(app_name, app_binary) THEN "Game"
    ELSE IF media_role \in GameRoles THEN "Game"
    ELSE IF WithinAny(BrowserNames, app_name) THEN "Browser"
    ELSE IF WithinAny(CommunicationNames, app_name) THEN "Communication"
    ELSE IF WithinAny(SystemNames, node_name) THEN "System"
    ELSE "Application"
\* _determine_source_type(props).
DetermineSourceType(props) ==
    SourceType(Lower(Get(props, "app")), Lower(Get(props, "bin")),
               Lower(Get(props, "name")), Lower(Get(props, "role")))
\* What pw-dump prints of a node of each kind, as the detector reads it.  The
\* kinds of the detector's own snapshots: two helper processes of Steam, the
\* source side of an echo canceller, a browser, Steam playing a sound itself.
DetectorKinds == {"WebHelper", "Overlay", "EchoSource", "Browser", "SteamSound"}
DumpProps(kind) ==
    CASE kind = "Steam" ->
           [app |-> <<"Steam">>, bin |-> <<"steam">>, name |-> Props(kind).name,
            mclass |-> Props(kind).mclass]
      [] kind = "Recorder" ->
           [app |-> <<"OBS">>, bin |-> <<"obs">>, name |-> Props(kind).name,
            mclass |-> Props(kind).mclass]
      [] kind = "Game" ->
           [app |-> <<"Duckov", ".exe">>, bin |-> <<"wine", "64-preloader">>,
            name |-> Props(kind).name, mclass |-> Props(kind).mclass]
      [] kind = "Voice" ->
           [app |-> <<"WEBRTC", " ", "VoiceEngine">>, bin |-> <<"Discord">>,
            name |-> Props(kind).name, mclass |-> Props(kind).mclass]
      [] kind = "WebHelper" ->
           [app |-> <<"steam", "webhelper">>, bin |-> <<"steam", "webhelper">>,
            name |-> <<"steam", "webhelper">>, mclass |-> <<"Stream/Output/Audio">>]
      [] kind = "Overlay" ->
           [app |-> <<"game", "overlayui">>, bin |-> <<"game", "overlayui">>,
            name |-> <<"game", "overlayui">>, mclass |-> <<"Stream/Output/Audio">>]
      [] kind = "EchoSource" ->
           [app |-> <<"PipeWire">>, name |-> <<"echo-cancel", "-source">>,
            mclass |-> <<"Audio/Source">>]
      [] kind = "Browser" ->
           [app |-> <<"Firefox">>, bin |-> <<"firefox">>, name |-> <<"AudioStream">>,
            mclass |-> <<"Stream/Output/Audio">>]
      [] kind = "SteamSound" ->
           [app |-> <<"Steam">>, bin |-> <<"steam">>, name |-> <<"Steam">>,
            mclass |-> <<"Stream/Output/Audio">>]
      [] OTHER -> [name |-> Props(kind).name, mclass |-> Props(kind).mclass]
DumpTable == [kind \in Kinds \cup DetectorKinds |-> DumpProps(kind)]

\* _parse_nodes: the filters a node passes to be listed as a source.
ListedClasses == {<<"Stream/Output/Audio">>, <<"Audio/Source">>}
InternalNames == {<<"echo-cancel">>, <<"dummy">>, <<"freewheel">>}
\* A filter that lets every media class through.
IsSource_AnyClass(props) ==
    /\ ~WithinAny(InternalNames, Lower(Get(props, "name")))
    /\ Get(props, "app") # <<"Steam">>
IsSource(props) ==
    /\ WithinAny(ListedClasses, Get(props, "mclass"))
    /\ ~WithinAny(InternalNames, Lower(Get(props, "name")))
    /\ Get(props, "app") # <<"Steam">>
\* The kinds of node that are listed, and the entry of a listed node.
SourceKinds == {kind \in Kinds \cup DetectorKinds : IsSource(DumpTable[kind])}
TypeTable == [kind \in Kinds \cup DetectorKinds |-> DetermineSourceType(DumpTable[kind])]
SourceEntry(ns, n) == [id |-> n, kind |-> ns[n], type |-> TypeTable[ns[n]]]
\* _parse_nodes(data): the listed nodes in the order of the dump.
ParseNodes(ns) ==
    [i \in DOMAIN SortedSeq({n \in NodeIds : Present(ns, n) /\ ns[n] \in SourceKinds}) |->
        SourceEntry(ns, SortedSeq({n \in NodeIds : Present(ns, n) /\ ns[n] \in SourceKinds})[i])]

\* get_audio_sources: the cache is served while it holds a list younger than
\* _cache_duration.
CacheDuration == 2
CacheFresh(det, t) == det.cached /\ (t - det.cache_time) < CacheDuration
\* A detector that takes a failed query for an empty list and caches it.
Queried_CachesFailure(det, ns, outcome, done) ==
    [sources |-> IF outcome = "ok" THEN ParseNodes(ns) ELSE <<>>, queried |-> TRUE,
     det |-> [cached |-> TRUE, cache |-> IF outcome = "ok" THEN ParseNodes(ns) ELSE <<>>,
              cache_time |-> done]]
\* The query: pw-dump ends at time done; only a dump that exits 0 and parses
\* is listed and cached, any other outcome gives [] and leaves the cache.
Queried(det, ns, outcome, done) ==
    IF outcome = "ok"
    THEN [sources |-> ParseNodes(ns), queried |-> TRUE,
          det |-> [cached |-> TRUE, cache |-> ParseNodes(ns), cache_time |-> done]]
    ELSE [sources |-> <<>>, queried |-> TRUE, det |-> det]
\* get_audio_sources() called at time t with a query that would end at done.
GetAudioSources(det, ns, t, outcome, done) ==
    IF CacheFresh(det, t)
    THEN [sources |-> det.cache, queried |-> FALSE, det |-> det]
    ELSE Queried(det, ns, outcome, done)
(***************************************************************************)
(* Inputs of the handlers.                                                 *)
(***************************************************************************)
\* Ids a caller can pass as sources: ids of its (possibly stale) source list.
Candidates == {3, 4, 6, 7}
Selections == {SortedSeq(T) : T \in {U \in SUBSET Candidates : Cardinality(U) <= MaxSel}}

\* The manager calls a handler run made: its dumps and listings, its destroys
\* and creates.
WritesOf(r) == {r.calls[i].pt : i \in DOMAIN r.calls}
PointsOf(r) == r.reads \cup WritesOf(r)
\* What can go wrong in one handler run, given the run r0 in which nothing
\* does: nothing, or, while the run has faults left, one call of r0 fails, or
\* one mutating call of r0 times out after the manager carried it out, or one
\* link r0 destroys is gone before its destroy.  Pairs
\* <<F, L>>: the calls that fail, the calls that time out late.
FaultPlans(r0) ==
    {<<{}, {}>>}
    \cup (IF faults < MaxFaults
          THEN {<<{p}, {}>> : p \in PointsOf(r0)} \cup {<<{}, {p}>> : p \in WritesOf(r0)}
               \cup {<<{}, {<<"gone", p[2], 0>>}>> :
                        p \in {q \in WritesOf(r0) : q[1] = "destroy"}}
          ELSE {})

Idle == [op |-> "none", S |-> <<>>, target |-> 0, r |-> NoResult({}, "none", {}),
         pre |-> {}, clean |-> TRUE, again |-> FALSE, F |-> {}, L |-> {}]

\* What is kept of a handler that returned.  `again` marks a run that started
\* as the one before it returned; F and L say what went wrong in the run.
Returned(op, S, target, r, F, L) ==
    [op |-> op, S |-> S, target |-> target, r |-> r, pre |-> links,
     clean |-> F = {} /\ L = {}, again |-> pc = "returned", F |-> F, L |-> L]

\* The graph can hold the links of r.
Fits(r) == \A l \in r.links : l.id # 0

(***************************************************************************)
(* The graph manager's side: nodes come and go, the session manager links  *)
(* a new stream to the default sink and Steam's recorder to its monitor.   *)
(***************************************************************************)
SinkIds == {5, 6}
\* Nodes that are there for the whole run: the sinks, a voice chat and a headset.
Resident == {4, 7}
DefaultSink(ns) ==
    LET sinks == {n \in SinkIds : Present(ns, n)}
    IN  IF sinks = {} THEN 0 ELSE Min(sinks)

RECURSIVE AutoLink(_, _, _, _, _, _, _)
AutoLink(ls, on, sps, inn, tps, i, num) ==
    IF i > num THEN ls
    ELSE AutoLink(ls \cup {[id |-> LinkIdOf(sps[i], tps[i], 1), on |-> on, op |-> sps[i],
                            inn |-> inn, ip |-> tps[i]]},
                  on, sps, inn, tps, i + 1, num)

LinksOnAppear(ns, ls, n) ==
    LET sink == DefaultSink(ns)
    IN  IF sink = 0 THEN ls
        ELSE IF Contains(PropsOf(ns, n).mclass, "Stream/Output/Audio")
        THEN AutoLink(ls, n, Ports(ns, n, "out"), sink, Ports(ns, sink, "in"), 1,
                      MinOf(PropsOf(ns, n).nout, PropsOf(ns, sink).nin))
        ELSE IF PropsOf(ns, n).app = "Steam"
        THEN AutoLink(ls, sink, Ports(ns, sink, "out"), n, Ports(ns, n, "in"), 1,
                      MinOf(PropsOf(ns, sink).nout, PropsOf(ns, n).nin))
        ELSE ls

NodeAppears(n, k) ==
    /\ pc = "idle"
    /\ n \notin SinkIds \cup Resident
    /\ nodes[n] = "absent"
    /\ k \in KindsAt(n)
    \* one recording application at a time: Steam, or the one that reuses its id
    /\ k \in {"Steam", "Recorder"} => SteamNodes(nodes) = {} /\ nodes[1] = "absent"
    /\ nodes' = [nodes EXCEPT ![n] = k]
    /\ links' = LinksOnAppear(nodes', links, n)
    /\ UNCHANGED <<steam_node_id, pc, faults, last, detvars, cfgvars, uivars>>

NodeDisappears(n) ==
    /\ pc = "idle"
    /\ n \notin SinkIds \cup Resident
    /\ nodes[n] # "absent"
    /\ nodes' = [nodes EXCEPT ![n] = "absent"]
    /\ links' = {l \in links : l.on # n /\ l.inn # n}
    /\ UNCHANGED <<steam_node_id, pc, faults, last, detvars, cfgvars, uivars>>

(***************************************************************************)
(* The handlers.                                                           *)
(***************************************************************************)
\* MainWindow.apply_routing / _auto_apply_new_games: the cached Steam node id
\* is read, not refreshed, and handed to create_audio_routing.
ApplyTarget(cached, ns) == cached

\* create_audio_routing as apply_routing calls it, when nothing goes wrong.
ApplyRun(S) ==
    CreateAudioRouting(nodes, links, S, ApplyTarget(steam_node_id, nodes), {}, {})

ApplyRouting(S, F, L) ==
    /\ \E target \in {ApplyTarget(steam_node_id, nodes)} :
       \E r \in {CreateAudioRouting(nodes, links, S, target, F, L)} :
           /\ Fits(r)
           /\ links' = r.links
           /\ last' = Returned("apply", S, target, r, F, L)
    /\ pc' = "returned"
    /\ faults' = faults + Cardinality(F \cup L)
    /\ UNCHANGED <<nodes, steam_node_id, detvars, cfgvars, uivars>>

\* Apply is clicked with some of the listed sources selected.
Apply ==
    /\ pc = "idle"
    /\ \E S \in Selections : \E fl \in FaultPlans(ApplyRun(S)) : ApplyRouting(S, fl[1], fl[2])

\* Apply is clicked again as soon as a run in which nothing went wrong has
\* returned: same selection, same cached Steam node, and nothing goes wrong.
ApplyAgain ==
    /\ pc = "returned" /\ last.op = "apply" /\ last.clean
    /\ ApplyRouting(last.S, {}, {})

\* get_current_routes when nothing goes wrong: the dumps it makes are the Steam
\* lookup and, unless the Steam node id stays unset, the link listing.
RoutesRun ==
    [NoResult(links, "Routes", {}) EXCEPT
        !.reads = IF UpdateSteamNode(steam_node_id, nodes, TRUE) = 0
                  THEN {<<"steamdump", 0, 0>>}
                  ELSE {<<"steamdump", 0, 0>>, <<"list", 0, 0>>}]

\* A refresh that also clears away the routes it finds.
CurrentRoutes_Clearing(F) ==
    /\ pc = "idle"
    /\ steam_node_id' = UpdateSteamNode(steam_node_id, nodes, <<"steamdump", 0, 0>> \notin F)
    /\ LET routes == GetCurrentRoutes(links, steam_node_id', <<"list", 0, 0>> \notin F)
           r      == [NoResult(links, "Routes", {}) EXCEPT !.ok = TRUE, !.removal = routes]
       IN  /\ last' = Returned("routes", <<>>, steam_node_id', r, F, {})
           /\ links' = DestroyLoop(links, routes, {}, {}).links
    /\ pc' = "returned"
    /\ faults' = faults + Cardinality(F)
    /\ UNCHANGED <<nodes, detvars, cfgvars, uivars>>

\* MainWindow.update_current_routes -> get_current_routes.
CurrentRoutes(F) ==
    /\ pc = "idle"
    /\ steam_node_id' = UpdateSteamNode(steam_node_id, nodes, <<"steamdump", 0, 0>> \notin F)
    /\ LET routes == GetCurrentRoutes(links, steam_node_id', <<"list", 0, 0>> \notin F)
           r      == [NoResult(links, "Routes", {}) EXCEPT !.ok = TRUE, !.removal = routes]
       IN  last' = Returned("routes", <<>>, steam_node_id', r, F, {})
    /\ pc' = "returned"
    /\ faults' = faults + Cardinality(F)
    /\ UNCHANGED <<nodes, links, detvars, cfgvars, uivars>>

\* MainWindow.refresh_sources -> SourceDetectorThread.run: get_audio_sources
\* of a SourceDetector made for this one call, which has nothing cached and
\* queries the manager with one pw-dump.
SourcesRun == NoResult(links, "Sources", {<<"srcdump", 0, 0>>})
SourcesResult(g) ==
    [sources |-> g.sources]
    @@ [NoResult(links, "Sources", {<<"srcdump", 0, 0>>}) EXCEPT !.ok = TRUE]
DumpOutcome(F) == IF <<"srcdump", 0, 0>> \in F THEN "nonzero" ELSE "ok"
DetectSources(F) ==
    /\ pc = "idle"
    /\ last' = Returned("detect", <<>>, steam_node_id,
                        SourcesResult(GetAudioSources(NewDetector, nodes, now,
                                                      DumpOutcome(F), now)),
                        F, {})
    /\ pc' = "returned"
    /\ faults' = faults + Cardinality(F)
    /\ UNCHANGED <<nodes, links, steam_node_id, detvars, cfgvars, uivars>>
\* disconnect_all_from_steam when nothing goes wrong.
DisconnectRun ==
    [DisconnectAllFromSteam(
         links,
         GetCurrentRoutes(links, UpdateSteamNode(steam_node_id, nodes, TRUE), TRUE),
         {}, {})
     EXCEPT !.reads = RoutesRun.reads]

\* disconnect_all_from_steam.
DisconnectAll(F, L) ==
    /\ pc = "idle"
    /\ steam_node_id' = UpdateSteamNode(steam_node_id, nodes, <<"steamdump", 0, 0>> \notin F)
    /\ \E routes \in {GetCurrentRoutes(links, steam_node_id', <<"list", 0, 0>> \notin F)} :
       \E r \in {DisconnectAllFromSteam(links, routes, F, L)} :
           /\ links' = r.links
           /\ last' = Returned("disconnect", <<>>, steam_node_id', r, F, L)
    /\ pc' = "returned"
    /\ faults' = faults + Cardinality(F \cup L)
    /\ UNCHANGED <<nodes, detvars, cfgvars, uivars>>

\* reconnect_sink_to_steam when nothing goes wrong.
ReconnectRun == ReconnectSinkToSteam(nodes, links, steam_node_id, {}, {})

\* reconnect_sink_to_steam.
RestoreDefault(F, L) ==
    /\ \E r \in {ReconnectSinkToSteam(nodes, links, steam_node_id, F, L)} :
           /\ Fits(r)
           /\ links' = r.links
           /\ last' = Returned("reconnect", <<>>, steam_node_id, r, F, L)
    /\ pc' = "returned"
    /\ faults' = faults + Cardinality(F \cup L)
    /\ UNCHANGED <<nodes, steam_node_id, detvars, cfgvars, uivars>>
ReconnectSink(F, L) == pc = "idle" /\ RestoreDefault(F, L)

\* What clear_all_routes and closeEvent run: disconnect_all_from_steam, then
\* reconnect_sink_to_steam whatever the first returned.  ok: both returned ok.
ClearResult(steam, d, c) ==
    [links |-> c.links, ok |-> d.ok /\ c.ok,
     kind |-> IF d.ok THEN c.kind ELSE "Failed",
     calls |-> d.calls \o c.calls,
     reads |-> (IF steam = 0 THEN {<<"steamdump", 0, 0>>}
                ELSE {<<"steamdump", 0, 0>>, <<"list", 0, 0>>}) \cup c.reads,
     removal |-> d.removal, valid |-> <<>>, connected |-> c.connected,
     failed |-> c.failed]
ClearReconnect(steam, d, F, L) ==
    ClearResult(steam, d, ReconnectSinkToSteam(nodes, d.links, steam, F, L))
ClearDisconnect(steam, F, L) ==
    ClearReconnect(steam,
                   DisconnectAllFromSteam(
                       links, GetCurrentRoutes(links, steam, <<"list", 0, 0>> \notin F),
                       F, L),
                   F, L)
ClearRun(F, L) ==
    ClearDisconnect(UpdateSteamNode(steam_node_id, nodes, <<"steamdump", 0, 0>> \notin F),
                    F, L)

\* MainWindow.clear_all_routes / closeEvent.
ClearAllRoutes(F, L) ==
    /\ pc = "idle"
    /\ steam_node_id' = UpdateSteamNode(steam_node_id, nodes, <<"steamdump", 0, 0>> \notin F)
    /\ \E r \in {ClearRun(F, L)} :
           /\ Fits(r)
           /\ links' = r.links
           /\ last' = Returned("clear", <<>>, steam_node_id', r, F, L)
    /\ pc' = "returned"
    /\ faults' = faults + Cardinality(F \cup L)
    /\ UNCHANGED <<nodes, detvars, cfgvars, uivars>>

\* The result has been shown; the next handler can run.
Return ==
    /\ pc = "returned"
    /\ pc' = "idle"
    /\ last' = Idle
    /\ UNCHANGED <<nodes, links, steam_node_id, faults, detvars, cfgvars, uivars>>

(***************************************************************************)
(* Specification.                                                          *)
(***************************************************************************)
\* PipeWireController.__init__ runs _update_steam_node once on the graph it finds.
Init ==
    /\ \E sinks \in {{5, 6}, {6}}, steam \in BOOLEAN :
          /\ nodes = [n \in NodeIds |->
                        IF n \in sinks \cup Resident THEN CHOOSE k \in KindsAt(n) : TRUE
                        ELSE IF n = 1 /\ steam THEN "Steam" ELSE "absent"]
          /\ links = IF steam THEN LinksOnAppear(nodes, LinksOnAppear(nodes, {}, 4), 1)
                     ELSE LinksOnAppear(nodes, {}, 4)
    /\ steam_node_id = UpdateSteamNode(0, nodes, TRUE)
    /\ pc = "idle"
    /\ faults = 0
    /\ last = Idle
    /\ detector = NewDetector
    /\ now = 0
    /\ profiles_dir = EmptyDir
    /\ ui = NewWindow

Environment ==
    \/ \E n \in NodeIds : \E k \in KindsAt(n) : NodeAppears(n, k)
    \/ \E n \in NodeIds : NodeDisappears(n)

Handlers ==
    \/ Apply
    \/ ApplyAgain
    \/ pc = "idle" /\ \E fl \in FaultPlans(RoutesRun) : CurrentRoutes(fl[1])
    \/ pc = "idle" /\ \E fl \in FaultPlans(DisconnectRun) : DisconnectAll(fl[1], fl[2])
    \/ pc = "idle" /\ \E fl \in FaultPlans(ReconnectRun) : ReconnectSink(fl[1], fl[2])
    \/ pc = "idle" /\ \E fl \in FaultPlans(ClearRun({}, {})) : ClearAllRoutes(fl[1], fl[2])
    \/ pc = "idle" /\ \E fl \in FaultPlans(SourcesRun) : DetectSources(fl[1])
    \/ Return

Next == Environment \/ Handlers

Spec == Init /\ [][Next]_vars

\* Sink selection on its own: Steam is running and the nodes 5..7 are any mix
\* of sinks; reconnect_sink_to_steam is called on such a graph.
SinkKinds == {"absent", "Analog", "Hdmi", "Usb", "Speakers", "EchoCancel"}
InitSink ==
    /\ nodes \in {ns \in [NodeIds -> SinkKinds \cup {"Steam"}] :
                     /\ ns[1] = "Steam"
                     /\ \A n \in 2..4 : ns[n] = "absent"
                     /\ \A n \in 5..7 : ns[n] \in SinkKinds}
    /\ links = {}
    /\ steam_node_id = UpdateSteamNode(0, nodes, TRUE)
    /\ pc = "idle"
    /\ faults = 0
    /\ last = Idle
    /\ detector = NewDetector
    /\ now = 0
    /\ profiles_dir = EmptyDir
    /\ ui = NewWindow

NextSink ==
    \/ pc = "idle" /\ \E fl \in FaultPlans(ReconnectRun) : ReconnectSink(fl[1], fl[2])
    \/ Return

SpecSink == InitSink /\ [][NextSink]_vars

TypeOK ==
    /\ \A n \in NodeIds : nodes[n] \in KindsAt(n) \cup {"absent"}
    /\ \A l \in links : \E c \in 1..MaxDup : l.id = LinkIdOf(l.op, l.ip, c)
    /\ steam_node_id \in 0..2
    /\ pc \in {"idle", "returned"}
    /\ faults \in 0..MaxFaults

(***************************************************************************)
(* Properties of the routing controller.                                   *)
(***************************************************************************)
ApplyReturned == pc = "returned" /\ last.op = "apply"
Calls == last.r.calls
CallsOf(k) == {i \in DOMAIN Calls : Calls[i].k = k}
Selected == SeqToSet(last.S)
\* Hardware sinks and Bluetooth devices, told by what the node is.
HardwareSink(n) == nodes[n] \in {"Analog", "Hdmi"}
BluetoothDevice(n) == nodes[n] = "Headset"
\* The node that is the recording target now; 0 when there is none.
CurrentTarget == IF SteamNodes(nodes) = {} THEN 0 ELSE Min(SteamNodes(nodes))

C2_OnlySelectedReachTarget ==
    ApplyReturned /\ last.r.ok =>
        \A l \in links : l.inn = last.target => l.on \in Selected

\* C3: the destroy calls of create_audio_routing are those of the removal set,
\* in its order, each with its outcome known, and all of them come before the
\* first create call.
C3_DestroysBeforeCreates ==
    ApplyReturned =>
        /\ \A i \in CallsOf("destroy"), j \in CallsOf("create") : i < j
        /\ Cardinality(CallsOf("destroy")) = Len(last.r.removal)
        /\ \A i \in DOMAIN last.r.removal :
              /\ Calls[i].k = "destroy"
              /\ Calls[i].pt = <<"destroy", last.r.removal[i].id, 0>>
              /\ Calls[i].res \in {"ok", "fail", "timeout", "gone"}

\* A call that destroyed links and created links.
C3_Witness ==
    ApplyReturned /\ CallsOf("destroy") # {} /\ CallsOf("create") # {}

\* The number of links of ls between output port op and input port ip.
PairCount(ls, op, ip) == Cardinality({l \in ls : l.op = op /\ l.ip = ip})

\* C4: when create_audio_routing runs a second time with the same sources,
\* right after the first and with every manager call of both succeeding, each
\* port pair into the target has as many links after the second call as
\* before it, and a port pair of a selected source has exactly one.
C4_ReapplyIdempotent ==
    ApplyReturned /\ last.again =>
        /\ \A l \in last.pre \cup links :
              l.inn = last.target =>
                  PairCount(links, l.op, l.ip) = PairCount(last.pre, l.op, l.ip)
        /\ \A l \in links :
              l.inn = last.target /\ l.on \in Selected => PairCount(links, l.op, l.ip) = 1

\* The second call took the routes of the first away and made them anew.
C4_Witness ==
    /\ ApplyReturned /\ last.again
    /\ CallsOf("destroy") # {} /\ CallsOf("create") # {}
    /\ \E l \in links : l.inn = last.target /\ l.on \in Selected

\* C5: create_audio_routing returns ok only if every validated source has a
\* link on each of its min(output ports, target input ports) channels.
C5_OkOnlyIfFullyConnected ==
    ApplyReturned /\ last.r.ok =>
        \A k \in DOMAIN last.r.valid :
            LET s   == last.r.valid[k]
                sps == Ports(nodes, s, "out")
                tps == Ports(nodes, last.target, "in")
            IN  \A i \in 1..MinOf(Len(sps), Len(tps)) :
                    \E l \in links : l.op = sps[i] /\ l.ip = tps[i]

\* C6: when create_audio_routing returns NoValidSources it has issued no
\* create and no destroy, and the graph is as it was.
C6_NoValidSourcesNoMutation ==
    ApplyReturned /\ last.r.kind = "NoValidSources" =>
        Calls = <<>> /\ links = last.pre

\* C7: when no recording target is in the graph as apply_routing is invoked,
\* the call fails with TargetNotFound and issues no create and no destroy.
C7_MissingTargetFailsFast ==
    ApplyReturned /\ CurrentTarget = 0 =>
        last.r.kind = "TargetNotFound" /\ Calls = <<>>

\* C8: every create and every destroy a handler issues is for a link into the
\* node that is the recording target when the handler runs.
C8_ActsOnCurrentTarget ==
    pc = "returned" =>
        \A i \in DOMAIN Calls : CurrentTarget # 0 /\ Calls[i].inn = CurrentTarget

\* C9: create_audio_routing issues a create only for a selected id that is in
\* the graph, is no Bluetooth device and is no hardware sink; when every
\* selected id is filtered out it returns NoValidSources and creates nothing.
Filtered(n) == nodes[n] = "absent" \/ BluetoothDevice(n) \/ HardwareSink(n)
C9_OnlyValidatedSourcesLinked ==
    ApplyReturned =>
        /\ \A i \in CallsOf("create") :
              Calls[i].on \in Selected /\ ~Filtered(Calls[i].on)
        /\ last.target # 0 /\ (\A n \in Selected : Filtered(n)) =>
              last.r.kind = "NoValidSources" /\ CallsOf("create") = {}

\* A Bluetooth headset and a legitimate source were selected together, and
\* links were created.
C9_Witness ==
    /\ ApplyReturned
    /\ \E n \in Selected : BluetoothDevice(n)
    /\ \E n \in Selected : ~Filtered(n)
    /\ CallsOf("create") # {}

DisconnectReturned == pc = "returned" /\ last.op = "disconnect"

\* C11: disconnect_all_from_steam issues a destroy for every link into the
\* recording target, whatever its source and whatever became of the destroys
\* before it, and returns ok exactly when no destroy it issued failed (so ok
\* when there was nothing to disconnect).
C11_DisconnectAllAttemptsEveryLink ==
    DisconnectReturned =>
        /\ \A l \in last.pre :
              CurrentTarget # 0 /\ l.inn = CurrentTarget =>
                  \E i \in CallsOf("destroy") : Calls[i].pt = <<"destroy", l.id, 0>>
        /\ last.r.ok <=> \A i \in CallsOf("destroy") : Calls[i].res = "ok"

\* C12: after disconnect_all_from_steam returned ok, get_current_routes
\* returns the empty list and no link into the recording target is left.
C12_OkDisconnectLeavesNoRoute ==
    DisconnectReturned /\ last.r.ok =>
        /\ GetCurrentRoutes(links, UpdateSteamNode(steam_node_id, nodes, TRUE), TRUE) = <<>>
        /\ \A l \in links : CurrentTarget # 0 => l.inn # CurrentTarget

\* C13: a destroy whose link is already gone does not count as a failure:
\* disconnect_all_from_steam returns ok when each of its destroys either
\* succeeded or found its link gone.
C13_AlreadyGoneIsSuccess ==
    DisconnectReturned /\ (\A i \in CallsOf("destroy") : Calls[i].res \in {"ok", "gone"}) =>
        last.r.ok

\* Sinks by what their label says.
AnalogLabelled(n) == nodes[n] \in {"Analog", "Speakers"}
PlainSink(n) == nodes[n] = "Usb"
GpuSink(n) == nodes[n] = "Hdmi"
VirtualSink(n) == nodes[n] = "EchoCancel"

\* C14: the sink reconnect_sink_to_steam links to Steam is an analog/stereo
\* labelled sink if there is one, else another sink that is neither virtual
\* nor GPU if there is one, else a GPU/HDMI sink; never a virtual sink.
C14_SinkPriority ==
    pc = "returned" /\ last.op = "reconnect" =>
        \A i \in CallsOf("create") :
            LET s == Calls[i].on
            IN  /\ ~VirtualSink(s)
                /\ AnalogLabelled(s) \/ PlainSink(s) \/ GpuSink(s)
                /\ (\E n \in NodeIds : AnalogLabelled(n)) => AnalogLabelled(s)
                /\ GpuSink(s) => ~\E n \in NodeIds : AnalogLabelled(n) \/ PlainSink(n)

\* The target t records application sources only: what apply_routing leaves.
Isolated(ls, t) ==
    /\ \E l \in ls : l.inn = t
    /\ \A l \in ls : l.inn = t => nodes[l.on] \in {"Game", "Voice"}

\* C15: when clear_all_routes runs on an isolated graph and both
\* disconnect_all_from_steam and reconnect_sink_to_steam return ok, the links
\* into the recording target all come from the sink that was picked, none
\* from an application source.
C15_ClearRestoresSinkOnly ==
    pc = "returned" /\ last.op = "clear" /\ last.r.ok
      /\ CurrentTarget # 0 /\ Isolated(last.pre, CurrentTarget) =>
        /\ \E l \in links : l.inn = CurrentTarget
        /\ \A l \in links :
              l.inn = CurrentTarget =>
                  /\ nodes[l.on] \notin {"Game", "Voice", "Headset"}
                  /\ \E i \in CallsOf("create") : Calls[i].on = l.on

RoutesReturned == pc = "returned" /\ last.op = "routes"

\* C16: get_current_routes issues no create and no destroy, and the links of
\* the graph are the same after it as before it.
C16_CurrentRoutesReadsOnly ==
    RoutesReturned =>
        /\ CallsOf("create") = {} /\ CallsOf("destroy") = {}
        /\ links = last.pre

\* get_current_routes returned routes that are in the graph.
C16_Witness ==
    RoutesReturned /\ last.r.removal # <<>> /\ links # {} /\ links = last.pre

\* C17: the routes get_current_routes returns, when its dump and its listing
\* succeed, are the links of the listing whose input node is the recording
\* target, one route per link, in listing order, the last link included.
C17_RoutesAreTargetLinks ==
    RoutesReturned /\ last.clean =>
        last.r.removal =
            SelectSeq(LinkListing(links),
                      LAMBDA l : CurrentTarget # 0 /\ l.inn = CurrentTarget)

\* C18: when a dump or a listing of get_current_routes fails, what it returns
\* is an error outcome, not the outcome of a read that succeeded and found
\* no routes.
C18_ReadFailureIsReported ==
    RoutesReturned /\ last.F # {} =>
        ~last.r.ok /\ <<last.r.kind, last.r.removal>> # <<"Routes", <<>>>>

Summaries ==
    {"Ok", "Failed", "NoValidSources", "TargetNotFound", "QueryFailed", "NoSink", "NoPorts"}
ControllerReturned == last.op \in {"apply", "disconnect", "reconnect"}
CallNames == {"steamdump", "sinkdump", "list", "validate", "ports", "tports", "destroy", "create"}
\* The calls of the three operations a failure of which would leave the
\* operation as an exception, with the failure that does it.
Escaping ==
    {x \in {"apply", "disconnect", "reconnect"} \X CallNames \X FailureKinds :
         TryBlocks(x[1], x[2]) # <<>>
         /\ CaughtBy(x[1], x[2], ExceptionAt(x[2], x[3])) = "uncaught"}
\* The calls a handler makes outside every try statement.
Unguarded ==
    {x \in {"apply", "disconnect", "reconnect"} \X CallNames : TryBlocks(x[1], x[2]) = <<>>}
\* The calls made through _run_pw_cli_safe, and those of them whose timeout
\* stops in _run_pw_cli_safe, which then returns None.
ThroughHelper ==
    {x \in {"apply", "disconnect", "reconnect"} \X CallNames :
         TryBlocks(x[1], x[2]) # <<>> /\ TryBlocks(x[1], x[2])[1] = "_run_pw_cli_safe"}
TimeoutIsNone ==
    {x \in ThroughHelper : CaughtBy(x[1], x[2], "TimeoutExpired") = "_run_pw_cli_safe"}

SnapshotPorts(dump, read, s, n, dir) ==
    IF <<read, s, 0>> \in last.F THEN <<>>
    ELSE SelectSeq(dump, LAMBDA p : p.node = n /\ p.dir = dir)
CreatesFor(s) == SelectSeq(last.r.calls, LAMBDA c : c.k = "create" /\ c.on = s)
\* calls are create-links from out[i] to inn[i] on the target, for i up to
\* the smaller of the two lengths.
PairedInOrder(calls, out, inn) ==
    /\ Len(calls) = MinOf(Len(out), Len(inn))
    /\ \A i \in DOMAIN calls :
           /\ calls[i].op = out[i].id
           /\ calls[i].inn = last.target
           /\ calls[i].ip = inn[i].id
PairedWith(dump, s) ==
    PairedInOrder(CreatesFor(s), SnapshotPorts(dump, "ports", s, s, "out"),
                  SnapshotPorts(dump, "tports", s, last.target, "in"))

\* C20: for each validated source, create_audio_routing issues as many
\* create-link calls as the smaller of the number of out ports of the source
\* and the number of in ports of the target, and the i-th call links the i-th
\* out port of the source to the i-th in port of the target; the ports of a
\* node are the ports of the dump with its node id and the direction asked
\* for, in the order of the dump.
C20_PositionalPortPairing ==
    ApplyReturned /\ last.r.valid # <<>> =>
        \A dump \in {PortDump(nodes)} :
            \A s \in SeqToSet(last.r.valid) : PairedWith(dump, s)
\* A source with two out ports got two create-link calls, and a source with
\* one out port one, for a target with two in ports.
C20_Witness ==
    /\ ApplyReturned
    /\ Len(SnapshotPorts(PortDump(nodes), "tports", 0, last.target, "in")) = 2
    /\ \E s, t \in SeqToSet(last.r.valid) :
           /\ Len(CreatesFor(s)) = 2 /\ CreatesFor(s)[1].op # CreatesFor(s)[2].op
           /\ Len(SnapshotPorts(PortDump(nodes), "ports", t, t, "out")) = 1
           /\ Len(CreatesFor(t)) = 1

\* The position of a validated source in the list the source loop walks.
PositionIn(seq, x) == Min({i \in DOMAIN seq : seq[i] = x})
\* The dump made for source s (`read`) did not fail and shows a port of node
\* n with direction dir.
Shows(dump, read, s, n, dir) ==
    /\ <<read, s, 0>> \notin last.F
    /\ \E i \in DOMAIN dump : dump[i].node = n /\ dump[i].dir = dir
\* A validated source whose two port reads both gave ports.
HasPorts(dump, s) ==
    /\ Shows(dump, "ports", s, s, "out")
    /\ Shows(dump, "tports", s, last.target, "in")
Creates == SelectSeq(last.r.calls, LAMBDA c : c.k = "create")

\* C21: in create_audio_routing a source that cannot be connected (no ports,
\* or every create-link of it failing or timing out) does not end the source
\* loop: every validated source whose port reads gave ports gets a create-link,
\* and the create-links follow the order of the validated selection.
C21_EverySourceAttempted ==
    ApplyReturned /\ last.r.valid # <<>> =>
        /\ \A dump \in {PortDump(nodes)} : \A s \in SeqToSet(last.r.valid) :
               HasPorts(dump, s) => CreatesFor(s) # <<>>
        /\ \A cs \in {Creates} : \A i \in 2..Len(cs) :
               PositionIn(last.r.valid, cs[i - 1].on)
                   <= PositionIn(last.r.valid, cs[i].on)
\* A source failed and a source after it in the selection still got its
\* create-link.
C21_Witness ==
    /\ ApplyReturned
    /\ \E i, j \in DOMAIN last.r.valid :
           /\ i < j
           /\ last.r.valid[i] \in SeqToSet(last.r.failed)
           /\ CreatesFor(last.r.valid[j]) # <<>>

\* C22: a validated source for which create_audio_routing finds no output
\* ports, or no input ports of the recording target, is not connected: it gets
\* no create-link, it is counted as failed and not as connected, and the call
\* returns False.
C22_NoPortsFails ==
    ApplyReturned /\ last.r.valid # <<>> =>
        \A dump \in {PortDump(nodes)} : \A s \in SeqToSet(last.r.valid) :
            ~HasPorts(dump, s) =>
                /\ CreatesFor(s) = <<>>
                /\ s \in SeqToSet(last.r.failed)
                /\ s \notin SeqToSet(last.r.connected)
                /\ ~last.r.ok
\* One source of two is left without output ports while the target has its
\* input ports; the other source is connected.
C22_Witness ==
    /\ ApplyReturned
    /\ SnapshotPorts(PortDump(nodes), "tports", 0, last.target, "in") # <<>>
    /\ \E s, t \in SeqToSet(last.r.valid) :
           /\ SnapshotPorts(PortDump(nodes), "ports", s, s, "out") = <<>>
           /\ s \in SeqToSet(last.r.failed)
           /\ t \in SeqToSet(last.r.connected)
    /\ ~last.r.ok
\* The recording target has no input ports and every validated source fails.
C22_TargetWithoutPorts ==
    /\ ApplyReturned /\ last.r.valid # <<>> /\ last.F = {}
    /\ SnapshotPorts(PortDump(nodes), "tports", 0, last.target, "in") = <<>>
    /\ SeqToSet(last.r.failed) = SeqToSet(last.r.valid)

SourcesReturned == pc = "returned" /\ last.op = "detect"
ListedIds == {last.r.sources[i].id : i \in DOMAIN last.r.sources}
IsSinkNode(n) == Contains(PropsOf(nodes, n).mclass, "Audio/Sink")
CreatesFrom == {last.r.calls[i].on : i \in CallsOf("create")}

\* C28: no node is both a source and a sink or the recording target:
\* get_audio_sources lists no node whose media class is an audio sink and
\* neither the Steam node nor the node create_audio_routing is given as its
\* target; create_audio_routing issues no create-link from a node whose media
\* class is an audio sink.
C28_SourcesAreNotSinks ==
    /\ SourcesReturned =>
           \A n \in ListedIds :
               ~IsSinkNode(n) /\ n # CurrentTarget /\ n # steam_node_id
    /\ ApplyReturned => \A n \in CreatesFrom : ~IsSinkNode(n)
\* Sources were listed while Steam and two sinks were in the graph.
C28_Witness ==
    /\ SourcesReturned /\ ListedIds # {}
    /\ CurrentTarget # 0 /\ steam_node_id = CurrentTarget
    /\ Cardinality({n \in NodeIds : Present(nodes, n) /\ IsSinkNode(n)}) = 2
\* A sink was passed to create_audio_routing with a game, and only the game
\* was linked.
C28_SinkSelected ==
    /\ ApplyReturned /\ CreatesFrom # {}
    /\ \E n \in Selected : Present(nodes, n) /\ IsSinkNode(n)
(***************************************************************************)
(* The classifier on its own: _determine_source_type is called with one    *)
(* property mapping after the other, and again with the same mapping.      *)
(***************************************************************************)
\* The values a mapping can give each key; a mapping holds any of the keys.
AppNames ==
    {<<>>, <<"Chromium">>, <<"WEBRTC", " ", "VoiceEngine">>, <<"Firefox">>,
     <<"pressure-vessel", "-wrap">>, <<"Native", "Game">>, <<"Discord">>,
     <<"Vivaldi">>, <<"game", ".exe">>}
Binaries ==
    {<<>>, <<"wine", "64-preloader">>, <<"proton">>, <<"Discord">>, <<"game", ".x86_64">>,
     <<"/steamapps/", "common/", "game", ".x86_64">>, <<"steam", "webhelper">>,
     <<"pressure-vessel", "-wrap">>, <<"firefox">>}
NodeNames ==
    {<<>>, <<"Chromium">>, <<"alsa", "_output.pci-0000_00_1f.3.analog-stereo">>,
     <<"Steam", "Game">>, <<"game">>}
MediaRoles == {<<"Game">>, <<"Music">>, <<"production">>}
ClassifierKeys == {"app", "bin", "name", "role"}
Restrict(f, K) == [k \in K |-> f[k]]
PropMappings ==
    {Restrict([app |-> a, bin |-> b, name |-> n, role |-> r], K) :
        a \in AppNames, b \in Binaries, n \in NodeNames, r \in MediaRoles,
        K \in SUBSET ClassifierKeys}

Classify(props) ==
    /\ pc = "idle"
    /\ last' = [op |-> "classify", props |-> props, type |-> DetermineSourceType(props),
                again |-> FALSE, first |-> DetermineSourceType(props)]
    /\ pc' = "returned"
    /\ UNCHANGED <<nodes, links, steam_node_id, faults, detvars, cfgvars, uivars>>
ClassifyAgain ==
    /\ pc = "returned" /\ last.op = "classify" /\ ~last.again
    /\ last' = [last EXCEPT !.again = TRUE, !.type = DetermineSourceType(last.props)]
    /\ UNCHANGED <<nodes, links, steam_node_id, pc, faults, detvars, cfgvars, uivars>>

InitClassify ==
    /\ nodes = [n \in NodeIds |-> "absent"]
    /\ links = {}
    /\ steam_node_id = 0
    /\ pc = "idle"
    /\ faults = 0
    /\ last = Idle
    /\ detector = NewDetector
    /\ now = 0
    /\ profiles_dir = EmptyDir
    /\ ui = NewWindow
NextClassify ==
    \/ \E props \in PropMappings : Classify(props)
    \/ ClassifyAgain
    \/ Return
SpecClassify == InitClassify /\ [][NextClassify]_vars

(***************************************************************************)
(* Properties of the classifier.                                           *)
(***************************************************************************)
Classified == pc = "returned" /\ last.op = "classify"
Roles == {"Game", "Browser", "Communication", "System", "Application"}
\* The lower-cased value of a key, and whether it holds one of some tokens.
Lowered(key) == Lower(Get(last.props, key))
HasToken(key, toks) == \E i \in DOMAIN Lowered(key) : Lowered(key)[i] \in toks

C24_LayerMarkerWins ==
    Classified /\ HasToken("bin", {"wine", "proton", ".exe"}) => last.type = "Game"
\* A wine binary with a browser's application name.
C24_Witness ==
    /\ Classified /\ HasToken("bin", {"wine"}) /\ HasToken("app", {"firefox", "chromium"})
    /\ last.type = "Game"

\* C25: a node whose binary is Discord is a Communication node, also when its
\* application name is Chromium or WEBRTC VoiceEngine.
C25_DiscordBinaryIsCommunication ==
    Classified /\ Lowered("bin") = <<"discord">>
        /\ Lowered("app") \in {<<"chromium">>, <<"webrtc", " ", "voiceengine">>}
        => last.type = "Communication"

\* C26: a node with a runtime-container marker (pressure-vessel) in its
\* application name or in its binary, and a native binary, is a Game.
C26_RuntimeContainerIsGame ==
    Classified
        /\ (HasToken("app", {"pressure-vessel"}) \/ HasToken("bin", {"pressure-vessel"}))
        /\ (HasToken("bin", {".x86_64"}) \/ HasToken("bin", {"pressure-vessel"}))
        => last.type = "Game"

(***************************************************************************)
(* The detector on its own: one SourceDetector is asked for the sources    *)
(* again and again while time passes and streams come and go.              *)
(***************************************************************************)
MaxTime == 3        \* how far the clock runs
\* The streams that come and go in the detector's snapshots.
DetectKindsAt(n) ==
    CASE n = 3 -> {"Game", "WebHelper", "Overlay"}
      [] n = 4 -> {"Voice", "EchoSource"}
      [] OTHER -> {}
\* How a pw-dump of the detector ends, and how long it takes.
DumpOutcomes == {"ok", "nonzero", "garbage", "timeout"}
DumpTimes == {0, 1}

DetectResult(g, outcome) ==
    [op |-> "detect", sources |-> g.sources, queried |-> g.queried, outcome |-> outcome,
     before |-> detector, at |-> now]
\* get_audio_sources() on the kept detector; a call served from the cache
\* makes no query, so it has no outcome to choose and takes no time.
Detect(outcome, d) ==
    /\ pc = "idle"
    /\ now + d <= MaxTime
    /\ CacheFresh(detector, now) => outcome = "ok" /\ d = 0
    /\ \E g \in {GetAudioSources(detector, nodes, now, outcome, now + d)} :
           /\ detector' = g.det
           /\ last' = DetectResult(g, outcome)
    /\ now' = now + d
    /\ pc' = "returned"
    /\ UNCHANGED <<nodes, links, steam_node_id, faults, cfgvars, uivars>>
Tick ==
    /\ pc = "idle"
    /\ now < MaxTime
    /\ now' = now + 1
    /\ UNCHANGED <<nodes, links, steam_node_id, pc, faults, last, detector, cfgvars, uivars>>
StreamAppears(n, k) ==
    /\ pc = "idle"
    /\ nodes[n] = "absent"
    /\ nodes' = [nodes EXCEPT ![n] = k]
    /\ UNCHANGED <<links, steam_node_id, pc, faults, last, detvars, cfgvars, uivars>>
StreamDisappears(n) ==
    /\ pc = "idle"
    /\ DetectKindsAt(n) # {} /\ nodes[n] # "absent"
    /\ nodes' = [nodes EXCEPT ![n] = "absent"]
    /\ UNCHANGED <<links, steam_node_id, pc, faults, last, detvars, cfgvars, uivars>>

\* Steam records, plays a sound of its own, and a browser, a headset and the
\* speakers are there for the whole run.
InitDetect ==
    /\ nodes = [n \in NodeIds |->
                  CASE n = 1 -> "Steam" [] n = 2 -> "SteamSound" [] n = 5 -> "Analog"
                    [] n = 6 -> "Browser" [] n = 7 -> "Headset" [] OTHER -> "absent"]
    /\ links = {}
    /\ steam_node_id = 1
    /\ pc = "idle"
    /\ faults = 0
    /\ last = Idle
    /\ detector = NewDetector
    /\ now = 0
    /\ profiles_dir = EmptyDir
    /\ ui = NewWindow
NextDetect ==
    \/ \E outcome \in DumpOutcomes, d \in DumpTimes : Detect(outcome, d)
    \/ Tick
    \/ \E n \in NodeIds : \E k \in DetectKindsAt(n) : StreamAppears(n, k)
    \/ \E n \in NodeIds : StreamDisappears(n)
    \/ Return
SpecDetect == InitDetect /\ [][NextDetect]_vars

(***************************************************************************)
(* Properties of the detector.                                             *)
(***************************************************************************)
Detected == pc = "returned" /\ last.op = "detect"
Listed == {last.sources[i].kind : i \in DOMAIN last.sources}

\* Whether a string of a property mapping holds one of some runs, lower-cased.
HasRun(props, key, runs) == WithinAny(runs, Lower(Get(props, key)))
\* C27: get_audio_sources lists no internal node: none whose node.name marks
\* echo-cancel, dummy or freewheel processing, and no helper process of Steam
\* (steamwebhelper, gameoverlayui).
C27_NoInternalNodeListed ==
    Detected =>
        \A kind \in Listed :
            /\ ~HasRun(DumpTable[kind], "name", InternalNames)
            /\ ~HasRun(DumpTable[kind], "bin", HelperMarkers)

\* C29: get_audio_sources answers from its cache, without a query, exactly
\* when the detector holds a list and that list is less than 2 time units
\* old; otherwise it queries the manager, a query that succeeds is cached
\* with the time it ended, and a query that fails leaves the cache as it was.
C29_CacheWindow ==
    Detected =>
        /\ ~last.queried <=> (last.before.cached /\ last.at - last.before.cache_time < 2)
        /\ ~last.queried => last.sources = last.before.cache /\ detector = last.before
        /\ last.queried /\ last.outcome = "ok" =>
               detector = [cached |-> TRUE, cache |-> last.sources, cache_time |-> now]
        /\ last.queried /\ last.outcome # "ok" =>
               last.sources = <<>> /\ detector = last.before
\* A call one time unit after the query that filled the cache was answered
\* with the cached list, which the graph no longer matches.
C29_Witness ==
    /\ Detected /\ ~last.queried
    /\ last.at - last.before.cache_time = 1
    /\ last.sources # <<>> /\ last.sources # ParseNodes(nodes)
\* A query failed while the detector held a list too old to serve.
C29_FailedQueryKeepsCache ==
    /\ Detected /\ last.queried /\ last.outcome = "timeout"
    /\ last.before.cached /\ detector = last.before

(***************************************************************************)
(* ConfigManager: the profiles of profiles_dir.                            *)
(***************************************************************************)
\* A file name is its stem and its last suffix; a path of profiles_dir is the
\* name of the file in it.  No file of these names is in the working
\* directory, where load_profile looks when profiles_dir has none.
ProfileNames ==
    {[stem |-> "gaming", suffix |-> ""], [stem |-> "gaming", suffix |-> ".pwp"],
     [stem |-> "my", suffix |-> ".profile"], [stem |-> "stream", suffix |-> ""]}
\* Path.with_suffix('.pwp')
WithSuffix(name) == [stem |-> name.stem, suffix |-> ".pwp"]
Exists(dir, path) == path \in DOMAIN dir

\* The profile MainWindow.save_profile writes: the name as typed and the
\* selected source ids, as the list the UI makes or as a tuple.
SourceLists == {<<>>, <<3>>, <<3, 4>>}
ProfileData(name) ==
    {[name |-> name, sources |-> [py |-> py, items |-> s]] :
        py \in {"list", "tuple"}, s \in SourceLists}
\* json.dump writes lists and tuples as arrays; json.load reads arrays as lists.
JsonDump(data) == [name |-> data.name, sources |-> data.sources.items]
JsonLoad(text) == [name |-> text.name, sources |-> [py |-> "list", items |-> text.sources]]

\* save_profile: the path written.
SavePath(name) == IF name.suffix = ".pwp" THEN name ELSE WithSuffix(name)
\* save_profile(filename, profile_data): the directory after it.
SaveProfileTo(dir, name, data) == (SavePath(name) :> JsonDump(data)) @@ dir
\* load_profile(filename): the data read, or the exception open() raises.
LoadProfile(dir, name) ==
    IF Exists(dir, name) THEN [raised |-> "none", data |-> JsonLoad(dir[name])]
    ELSE [raised |-> "FileNotFoundError",
          data |-> [name |-> name, sources |-> [py |-> "list", items |-> <<>>]]]
\* list_profiles(): the stems of the *.pwp files.
ListProfiles(dir) == {[stem |-> p.stem, suffix |-> ""] : p \in {q \in DOMAIN dir : q.suffix = ".pwp"}}
\* delete_profile(filename): the path removed, when there is one.
DeletePath(dir, name) == IF Exists(dir, name) THEN name ELSE WithSuffix(name)
Without(dir, path) == [p \in DOMAIN dir \ {path} |-> dir[p]]

\* save_profile; open() fails when the directory cannot be written.
SaveProfile(name, data, writable) ==
    /\ pc = "idle"
    /\ profiles_dir' = IF writable THEN SaveProfileTo(profiles_dir, name, data)
                       ELSE profiles_dir
    /\ last' = [op |-> "save", name |-> name, data |-> data, ok |-> writable]
    /\ pc' = "returned"
    /\ UNCHANGED <<nodes, links, steam_node_id, faults, detvars, uivars>>
\* load_profile and list_profiles with the name that was just saved.
LoadSaved ==
    /\ pc = "returned" /\ last.op = "save" /\ last.ok
    /\ last' = [op |-> "load", name |-> last.name, data |-> last.data,
                loaded |-> LoadProfile(profiles_dir, last.name),
                listed |-> ListProfiles(profiles_dir)]
    /\ UNCHANGED <<nodes, links, steam_node_id, pc, faults, detvars, cfgvars, uivars>>
\* delete_profile(filename): True when a file was removed, False when neither
\* path exists.
DeleteProfile(name) ==
    /\ pc = "idle"
    /\ profiles_dir' = IF Exists(profiles_dir, DeletePath(profiles_dir, name))
                       THEN Without(profiles_dir, DeletePath(profiles_dir, name))
                       ELSE profiles_dir
    /\ last' = [op |-> "delete", name |-> name, before |-> profiles_dir,
                ok |-> Exists(profiles_dir, DeletePath(profiles_dir, name))]
    /\ pc' = "returned"
    /\ UNCHANGED <<nodes, links, steam_node_id, faults, detvars, uivars>>
InitConfig ==
    /\ nodes = [n \in NodeIds |-> "absent"]
    /\ links = {}
    /\ steam_node_id = 0
    /\ pc = "idle"
    /\ faults = 0
    /\ last = Idle
    /\ detector = NewDetector
    /\ now = 0
    /\ profiles_dir = EmptyDir
    /\ ui = NewWindow
NextConfig ==
    \/ \E name \in ProfileNames : \E data \in ProfileData(name) : \E writable \in BOOLEAN :
           SaveProfile(name, data, writable)
    \/ LoadSaved
    \/ \E name \in ProfileNames : DeleteProfile(name)
    \/ Return
SpecConfig == InitConfig /\ [][NextConfig]_vars

\* C30: after save_profile(name, data) has succeeded, load_profile(name)
\* returns data as it was saved and list_profiles() holds name.
C30_ProfileRoundTrip ==
    pc = "returned" /\ last.op = "load" =>
        /\ last.loaded.raised = "none"
        /\ last.loaded.data = last.data
        /\ last.name \in last.listed

DeleteReturned == pc = "returned" /\ last.op = "delete"
\* The name was saved: the file save_profile writes for it is in the directory.
WasSaved(dir, name) == Exists(dir, SavePath(name))

\* C31: delete_profile(name) after save_profile(name, ...) removes the profile
\* from list_profiles() and returns True; delete_profile of a name that was
\* never saved also returns True and leaves the stored profiles unchanged.
C31_DeleteProfile ==
    DeleteReturned =>
        /\ WasSaved(last.before, last.name) =>
               /\ last.ok
               /\ [stem |-> last.name.stem, suffix |-> ""] \notin ListProfiles(profiles_dir)
        /\ ~WasSaved(last.before, last.name) =>
               /\ last.ok
               /\ profiles_dir = last.before
\* What the code does for a saved name: the file is removed and True returned.
C31_DeleteSaved ==
    DeleteReturned /\ WasSaved(last.before, last.name) =>
        /\ last.ok
        /\ [stem |-> last.name.stem, suffix |-> ""] \notin ListProfiles(profiles_dir)

(***************************************************************************)
(* MainWindow: the UI thread with its nested event loops, the detector     *)
(* threads and the detection watchdog.  Here a controller call is a frame  *)
(* of the UI thread's stack that is entered and left in separate steps, so *)
(* that whatever can run while a call is under way is seen to.             *)
(***************************************************************************)
MaxDetections == 1   \* detector threads started after the first one
MaxNest == 1         \* message boxes open at once

\* Frames in which the UI thread runs an event loop: QMessageBox dialogs.
Dialogs == {"apply.refused", "apply.report", "load.done", "load.error",
            "clear.ask", "clear.done", "close.ask"}
\* Frames in which the UI thread is inside a controller call that changes
\* the graph: create_audio_routing (.call), disconnect_all_from_steam
\* (.disconnect) and reconnect_sink_to_steam (.reconnect).
CallFrames == {"apply.call", "poll.call", "clear.disconnect", "clear.reconnect",
               "close.disconnect", "close.reconnect"}
Top(g) == g[Len(g)]
Pop(g) == SubSeq(g, 1, Len(g) - 1)
Replace(g, f) == Pop(g) \o <<f>>
OpenDialogs(g) == Cardinality({i \in DOMAIN g : g[i] \in Dialogs})

\* An event loop that dispatches whatever the stack holds, as one that is
\* re-entered from inside a controller call would.
InEventLoop_Always(g) == TRUE
\* The UI thread dispatches events from app.exec_() and from the exec() of
\* its message boxes, and from nowhere else.
InEventLoop(g) == IF g = <<>> THEN TRUE ELSE Top(g) \in Dialogs
\* A handler that may show a message box is let in while one more fits.
Dispatch(g) == InEventLoop(g) /\ OpenDialogs(g) < MaxNest

\* QThread.isRunning() of self.detector_thread.
IsRunning(w, n) == n \in DOMAIN w.threads /\ w.threads[n] \in {"running", "emitted"}
\* A detect_sources that starts a thread whatever the last one does.
DetectionBusy_Never(w) == FALSE
\* `self.detector_thread and self.detector_thread.isRunning()`
DetectionBusy(w) == IsRunning(w, w.detector_thread)
Running(w) == {n \in DOMAIN w.threads : IsRunning(w, n)}

graphvars == <<nodes, links, steam_node_id, pc, faults, detvars, cfgvars>>

\* apply_routing (button, tray menu): a warning when nothing is selected or
\* Steam is not found, else create_audio_routing.
ApplyStarts == {"apply.refused", "apply.call"}
ApplyClicked ==
    /\ Dispatch(ui.gui)
    /\ \E f \in ApplyStarts : ui' = [ui EXCEPT !.gui = ui.gui \o <<f>>]
    /\ UNCHANGED <<graphvars, last>>
\* load_selected_profile: load_profile, then apply_routing() and a message
\* box; a message box alone when load_profile raises.
LoadClicked ==
    /\ Dispatch(ui.gui)
    /\ \/ ui' = [ui EXCEPT !.gui = ui.gui \o <<"load.error">>]
       \/ \E f \in ApplyStarts : ui' = [ui EXCEPT !.gui = ui.gui \o <<"load.wait", f>>]
    /\ UNCHANGED <<graphvars, last>>
\* clear_all_routes: the question first.
ClearClicked ==
    /\ Dispatch(ui.gui)
    /\ ui' = [ui EXCEPT !.gui = ui.gui \o <<"clear.ask">>]
    /\ UNCHANGED <<graphvars, last>>
\* closeEvent of a quit that restores the default routing: with its question,
\* or without it when the prompt is off.
CloseRequested ==
    /\ Dispatch(ui.gui)
    /\ \E f \in {"close.ask", "close.disconnect"} :
           ui' = [ui EXCEPT !.gui = ui.gui \o <<f>>]
    /\ UNCHANGED <<graphvars, last>>
\* The user answers a question: Yes goes on to disconnect_all_from_steam.
Answered ==
    /\ ui.gui # <<>> /\ Top(ui.gui) \in {"clear.ask", "close.ask"}
    /\ \/ ui' = [ui EXCEPT !.gui = Pop(ui.gui)]
       \/ ui' = [ui EXCEPT !.gui =
                    Replace(ui.gui, IF Top(ui.gui) = "clear.ask" THEN "clear.disconnect"
                                    ELSE "close.disconnect")]
    /\ UNCHANGED <<graphvars, last>>
\* What a handler does when its controller call has returned.
AfterCall(f) ==
    CASE f = "apply.call" -> <<"apply.report">>
      [] f = "poll.call" -> <<>>
      [] f = "clear.disconnect" -> <<"clear.reconnect">>
      [] f = "clear.reconnect" -> <<"clear.done">>
      [] f = "close.disconnect" -> <<"close.reconnect">>
      [] f = "close.reconnect" -> <<>>
\* A handler that returned to load_selected_profile lets it show its box.
Resume(g) == IF g # <<>> /\ Top(g) = "load.wait" THEN Replace(g, "load.done") ELSE g
CallReturns ==
    /\ ui.gui # <<>> /\ Top(ui.gui) \in CallFrames
    /\ ui' = [ui EXCEPT !.gui = Resume(Pop(ui.gui) \o AfterCall(Top(ui.gui)))]
    /\ UNCHANGED <<graphvars, last>>
\* A message box that only informs is closed and its handler returns.
DialogClosed ==
    /\ ui.gui # <<>> /\ Top(ui.gui) \in Dialogs \ {"clear.ask", "close.ask"}
    /\ ui' = [ui EXCEPT !.gui = Resume(Pop(ui.gui))]
    /\ UNCHANGED <<graphvars, last>>

\* detect_sources: nothing while the last thread runs; else a new thread with
\* a detector of its own, and a new watchdog in place of the old one.
StartDetection(w) ==
    [w EXCEPT !.threads = w.threads \o <<"running">>,
              !.detector_thread = Len(w.threads) + 1,
              !.outcome = w.outcome \o <<{}>>,
              !.watchdog = [armed |-> TRUE, left |-> WatchdogTimeout]]
DetectRequested ==
    /\ InEventLoop(ui.gui)
    /\ Len(ui.threads) <= MaxDetections
    /\ ui' = IF DetectionBusy(ui) THEN ui ELSE StartDetection(ui)
    /\ last' = [op |-> "detect_sources", started |-> ~DetectionBusy(ui)]
    /\ UNCHANGED graphvars
\* SourceDetectorThread.run: get_audio_sources returns (it raises nothing) and
\* sources_found is emitted, which queues the slot for the UI thread; then
\* run returns.
ThreadEmits(n) ==
    /\ n \in DOMAIN ui.threads /\ ui.threads[n] = "running"
    /\ ui' = [ui EXCEPT !.threads[n] = "emitted", !.posted = ui.posted \o <<n>>]
    /\ UNCHANGED <<graphvars, last>>
ThreadFinishes(n) ==
    /\ n \in DOMAIN ui.threads /\ ui.threads[n] = "emitted"
    /\ ui' = [ui EXCEPT !.threads[n] = "finished"]
    /\ UNCHANGED <<graphvars, last>>
\* on_sources_detected: stops self.source_detection_timeout and shows the
\* sources.
OnSourcesDetected ==
    /\ InEventLoop(ui.gui) /\ ui.posted # <<>>
    /\ ui' = [ui EXCEPT !.posted = Tail(ui.posted),
                        !.watchdog.armed = FALSE,
                        !.outcome[Head(ui.posted)] = @ \cup {"delivered"}]
    /\ UNCHANGED <<graphvars, last>>
\* Time passes for the watchdog.
WatchdogTick ==
    /\ ui.watchdog.armed /\ ui.watchdog.left > 0
    /\ ui' = [ui EXCEPT !.watchdog.left = @ - 1]
    /\ UNCHANGED <<graphvars, last>>
\* _on_detection_timeout: a thread that still runs is terminated and the
\* timeout is shown.
Terminated(w) ==
    [w EXCEPT !.threads[w.detector_thread] = "terminated",
              !.outcome[w.detector_thread] = @ \cup {"timeout"},
              !.watchdog.armed = FALSE]
OnDetectionTimeout ==
    /\ InEventLoop(ui.gui)
    /\ ui.watchdog.armed /\ ui.watchdog.left = 0
    /\ ui' = IF DetectionBusy(ui) THEN Terminated(ui)
             ELSE [ui EXCEPT !.watchdog.armed = FALSE]
    /\ UNCHANGED <<graphvars, last>>
\* _check_for_source_changes: nothing while a detector thread runs; else a
\* detection of its own on the UI thread.
PollTimer ==
    /\ InEventLoop(ui.gui)
    /\ ui' = IF DetectionBusy(ui) THEN ui
             ELSE [ui EXCEPT !.gui = ui.gui \o <<"poll.detect">>]
    /\ last' = [op |-> "poll", started |-> ~DetectionBusy(ui)]
    /\ UNCHANGED graphvars
\* The poll's detection has returned: _auto_apply_new_games calls
\* create_audio_routing when a new game showed up, else the poll is over.
PollDetected ==
    /\ ui.gui # <<>> /\ Top(ui.gui) = "poll.detect"
    /\ \/ ui' = [ui EXCEPT !.gui = Pop(ui.gui)]
       \/ ui' = [ui EXCEPT !.gui = Replace(ui.gui, "poll.call")]
    /\ UNCHANGED <<graphvars, last>>

InitUI ==
    /\ nodes = [n \in NodeIds |-> "absent"]
    /\ links = {}
    /\ steam_node_id = 0
    /\ pc = "idle"
    /\ faults = 0
    /\ last = Idle
    /\ detector = NewDetector
    /\ now = 0
    /\ profiles_dir = EmptyDir
    /\ ui = NewWindow
NextUI ==
    \/ ApplyClicked
    \/ LoadClicked
    \/ ClearClicked
    \/ CloseRequested
    \/ Answered
    \/ CallReturns
    \/ DialogClosed
    \/ DetectRequested
    \/ \E n \in DOMAIN ui.threads : ThreadEmits(n)
    \/ \E n \in DOMAIN ui.threads : ThreadFinishes(n)
    \/ OnSourcesDetected
    \/ WatchdogTick
    \/ OnDetectionTimeout
    \/ PollTimer
    \/ PollDetected
SpecUI == InitUI /\ [][NextUI]_vars

\* The controller operations that are under way.
UnderWay == {i \in DOMAIN ui.gui : ui.gui[i] \in CallFrames}

\* C32: the UI serializes the operations that change the graph: at no time
\* are two of apply_routing (manual or auto-apply), disconnect_all and
\* restore_default under way at once, whatever the order of button clicks,
\* auto-detect polls, profile loads and window closes.
C32_MutationsSerialized == Cardinality(UnderWay) <= 1
\* An auto-apply is under way while the question of clear_all_routes, or the
\* report of an apply_routing, is still open.
C32_Witness ==
    /\ Len(ui.gui) >= 2
    /\ Top(ui.gui) = "poll.call"
    /\ \E i \in DOMAIN ui.gui : ui.gui[i] \in {"clear.ask", "apply.report"}

\* The scheduling the event loop and the threads give: whatever the UI thread
\* is in returns or is closed, a queued signal and a due timer are dispatched
\* sooner or later, time passes and a thread that emitted returns from run.
\* That get_audio_sources returns at all is not assumed: the watchdog is
\* there for the call that hangs.
SpecUIFair ==
    /\ SpecUI
    /\ WF_vars(CallReturns) /\ WF_vars(DialogClosed) /\ WF_vars(Answered)
    /\ WF_vars(PollDetected) /\ WF_vars(WatchdogTick)
    /\ SF_vars(OnSourcesDetected) /\ SF_vars(OnDetectionTimeout)
    /\ \A n \in 1..(MaxDetections + 1) : WF_vars(ThreadFinishes(n))

\* C33: every background detection that detect_sources starts ends in exactly
\* one of: its result delivered, or the thread terminated by the watchdog and
\* the timeout shown (an error is never reported, get_audio_sources raising
\* nothing): no detection ends in two of them.
C33_ExactlyOneOutcome ==
    \A n \in DOMAIN ui.outcome : Cardinality(ui.outcome[n]) <= 1
\* C33, the other half: a detection never stays running indefinitely.
C33_DetectionEnds ==
    \A n \in 1..(MaxDetections + 1) :
        IsRunning(ui, n) ~> ~IsRunning(ui, n)

\* The poll's own detection is under way on the UI thread.
PollDetecting == \E i \in DOMAIN ui.gui : ui.gui[i] = "poll.detect"

\* C34: at most one SourceDetectorThread runs at any time: detect_sources
\* starts no thread while the one before it runs, and the auto-detect poll
\* makes no detection of its own while a detector thread runs.
C34_OneDetectionAtATime ==
    /\ Cardinality(Running(ui)) <= 1
    /\ PollDetecting => Running(ui) = {}
\* detect_sources was asked for while the thread of an earlier call was
\* running, and started nothing.
C34_Witness ==
    /\ last.op = "detect_sources" /\ ~last.started
    /\ Running(ui) # {}

(***************************************************************************)
(* More properties of the routing controller.                              *)
(***************************************************************************)
\* The count create_audio_routing puts into "Removed N existing route(s)".
RemovedInSummary(r) == Len(r.removal)
\* The destroys of the run that left their link in place, and those that
\* returned 0.
DestroysFailed == {i \in CallsOf("destroy") : Calls[i].res = "fail"}
DestroysDone == {i \in CallsOf("destroy") : Calls[i].res = "ok"}

\* C35: create_audio_routing returns ok only if every link of its removal set
\* was destroyed: a destroy that fails or times out and leaves its link in
\* place makes the result not ok, and the removed count of the summary is the
\* number of destroys that succeeded.
C35_OkOnlyIfAllDestroyed ==
    ApplyReturned =>
        /\ last.r.ok => DestroysFailed = {}
        /\ last.r.removal # <<>> =>
               RemovedInSummary(last.r) = Cardinality(DestroysDone)

\* The reads disconnect_all_from_steam needs for its list of routes: the dump
\* that resolves the target and the link listing.
RouteReads == {<<"steamdump", 0, 0>>, <<"list", 0, 0>>}

\* C36: disconnect_all_from_steam returns not ok whenever the links into the
\* recording target could not be obtained (the listing or the dump failed or
\* timed out, or no target was resolved): it never reports success with no
\* route disconnected while links into the target are still there.
C36_UnreadRoutesAreNotSuccess ==
    DisconnectReturned =>
        /\ last.F \cap RouteReads # {} \/ last.target = 0 => ~last.r.ok
        /\ ~(/\ last.r.ok
             /\ CallsOf("destroy") = {}
             /\ \E l \in links : CurrentTarget # 0 /\ l.inn = CurrentTarget)

(***************************************************************************)
(* Restoring the default routing and what follows it: Steam is running, a  *)
(* voice chat plays, the nodes 5..7 are any mix of sinks and nothing is    *)
(* linked to Steam.                                                        *)
(***************************************************************************)
InitRestore ==
    /\ nodes \in {ns \in [NodeIds -> SinkKinds \cup {"Steam", "Voice"}] :
                     /\ ns[1] = "Steam" /\ ns[4] = "Voice"
                     /\ \A n \in 2..3 : ns[n] = "absent"
                     /\ \A n \in 5..7 : ns[n] \in SinkKinds}
    /\ links = {}
    /\ steam_node_id = UpdateSteamNode(0, nodes, TRUE)
    /\ pc = "idle"
    /\ faults = 0
    /\ last = Idle
    /\ detector = NewDetector
    /\ now = 0
    /\ profiles_dir = EmptyDir
    /\ ui = NewWindow
\* reconnect_sink_to_steam is called.
Restore == pc = "idle" /\ \E fl \in FaultPlans(ReconnectRun) : ReconnectSink(fl[1], fl[2])
\* It is called again as soon as a run in which nothing went wrong has
\* returned ok, and nothing goes wrong in the second run either.
RestoreAgain ==
    /\ pc = "returned" /\ last.op = "reconnect" /\ last.clean /\ last.r.ok
    /\ RestoreDefault({}, {})
\* Apply is clicked as soon as reconnect_sink_to_steam has returned ok, and
\* nothing goes wrong in create_audio_routing.
ApplyAfterRestore ==
    /\ pc = "returned" /\ last.op = "reconnect" /\ last.r.ok
    /\ \E S \in Selections : ApplyRouting(S, {}, {})
NextRestore ==
    \/ Restore
    \/ RestoreAgain
    \/ ApplyAfterRestore
    \/ Return
SpecRestore == InitRestore /\ [][NextRestore]_vars

\* C37: the sink reconnect_sink_to_steam links to the recording target is a
\* sink whose links into the target create_audio_routing removes: whatever
\* the sinks of the graph, after restore_default and an apply_routing that
\* returned ok no link from a sink into the target is left.
C37_RestoredSinkIsRemoved ==
    ApplyReturned /\ last.again /\ last.r.ok =>
        \A l \in links : l.inn = last.target => ~IsSinkNode(l.on)

RestoreReturned == pc = "returned" /\ last.op = "reconnect"
\* C38: reconnect_sink_to_steam is idempotent: called when the sink it picks
\* is already linked to the recording target, it issues no create-link for a
\* port pair that is linked, leaves the links of the first call and no
\* others, and returns ok.
C38_RestoreIdempotent ==
    RestoreReturned /\ last.again =>
        /\ \A i \in CallsOf("create") : PairCount(last.pre, Calls[i].op, Calls[i].ip) = 0
        /\ links = last.pre
        /\ last.r.ok

====
